---- MODULE Spec2Model ----
(***************************************************************************)
(* Model of the spreadsheet query layer of                                 *)
(* src/server/utils/spread-sheet-query/index2.ts: useSheetQuery (the       *)
(* transaction runner), createSheetQuery (session open, read, set, append, *)
(* deleteIf, commit) and validateColumnTypes (header validation), run by   *)
(* several script executions that share one spreadsheet and one script     *)
(* lock.                                                                   *)
(***************************************************************************)
EXTENDS Integers, Sequences, FiniteSets, TLC

\* ------------------------------------------------------------------------
\* Bounds
\* ------------------------------------------------------------------------
NumProcs == 2
MaxOps == 2

Procs == 1..NumProcs

\* ------------------------------------------------------------------------
\* Sheet values (SheetValue = boolean | number | string | Date).  A string
\* is a sequence of tokens: " " is one whitespace character, a token that
\* starts with "<" is a bracketed word, every other token is a run of
\* characters that are neither whitespace nor "<".
\* ------------------------------------------------------------------------
Str(toks) == [kind |-> "string", str |-> toks, num |-> 0]
Num(n) == [kind |-> "number", str |-> <<>>, num |-> n]
Undefined == [kind |-> "undefined", str |-> <<>>, num |-> 0]
EmptyCell == Str(<<>>)

TYPE_TOKENS == {"<string>", "<number>", "<boolean>", "<Date>"}
BRACKET_TOKENS == TYPE_TOKENS \cup {"<int>"}

TypeOfToken(tok) ==
    CASE tok = "<string>" -> "string"
      [] tok = "<number>" -> "number"
      [] tok = "<boolean>" -> "boolean"
      [] tok = "<Date>" -> "Date"
      [] OTHER -> "none"

IsSpace(tok) == tok = " "

RECURSIVE TrailingSpaces(_)
TrailingSpaces(toks) ==
    IF toks # <<>> /\ IsSpace(toks[Len(toks)])
    THEN 1 + TrailingSpaces(SubSeq(toks, 1, Len(toks) - 1))
    ELSE 0

RECURSIVE LeadingSpaces(_)
LeadingSpaces(toks) ==
    IF toks # <<>> /\ IsSpace(toks[1])
    THEN 1 + LeadingSpaces(Tail(toks))
    ELSE 0

NoMatch == [matched |-> FALSE, header |-> <<>>, type |-> "none"]

\* HEADER_REGEX = /^\s*(?:([^<]+)\s+<(string|number|boolean|Date)>)\s*$/
\* e is the position of the type token; the (greedy) name group takes
\* everything after the leading whitespace up to the last whitespace
\* character before the type token.
HEADER_REGEX(toks) ==
    LET e == Len(toks) - TrailingSpaces(toks)
        before == SubSeq(toks, 1, e - 1)
        k == LeadingSpaces(before)
    IN  IF e < 3 THEN NoMatch
        ELSE IF toks[e] \notin TYPE_TOKENS THEN NoMatch
        ELSE IF \E i \in 1..(e - 1) : toks[i] \in BRACKET_TOKENS THEN NoMatch
        ELSE IF ~IsSpace(toks[e - 1]) THEN NoMatch
        ELSE [matched |-> TRUE,
              header |-> IF k = e - 1 THEN <<toks[e - 2]>>
                         ELSE SubSeq(toks, k + 1, e - 2),
              type |-> TypeOfToken(toks[e])]

\* ------------------------------------------------------------------------
\* Errors and results
\* ------------------------------------------------------------------------
NoError == [isError |-> FALSE, msg |-> "", cell |-> EmptyCell, id |-> 0]
MkError(m, c, i) == [isError |-> TRUE, msg |-> m, cell |-> c, id |-> i]

NoResult == [kind |-> "none", value |-> "", error |-> NoError]
Ok(v) == [kind |-> "ok", value |-> v, error |-> NoError]
Err(e) == [kind |-> "err", value |-> "", error |-> e]

\* Mutant: whatever was thrown is handed back as it is, return Err(error).
CatchErrorKeepingValue(thrown) == Err(thrown)

\* catch (error): an Error instance is passed on, any other value is
\* wrapped as new Error(`${error}`)
CatchError(thrown) ==
    IF thrown.isError THEN Err(thrown)
    ELSE Err([thrown EXCEPT !.isError = TRUE])

\* Success.isOk() is true, Failure.isOk() is false.
isOk(res) == res.kind = "ok"

\* An Error as apiHandler reads it: its name and its message.
ErrorOf(name, message) == [name |-> name, message |-> message]

\* ok = (v) => ({ok: true, data: v})
ok(v) == [ok |-> TRUE, data |-> v]

\* Mutant: the name of the error is left out, {ok: false, message}.
errWithoutName(e) == [ok |-> FALSE, message |-> e.message]

\* err = (e) => ({ok: false, name: e.name, message: e.message})
err(e) == [ok |-> FALSE, name |-> e.name, message |-> e.message]

\* resultify(fn)(...p): fn's Result made into an ApiResult.
resultify(res) == IF isOk(res) THEN ok(res.value) ELSE err(res.error)

\* The Results the functions behind apiHandler return.
ApiErrors ==
    { ErrorOf(name, message) : name \in {"Error", "TypeError"},
                               message \in {"", "Lock timeout", "procedure failed"} }

FnResults == {Ok(v) : v \in {"v1", "v2"}} \cup {Err(e) : e \in ApiErrors}

\* ------------------------------------------------------------------------
\* Schemas (createColumnType / createColumnTypes / createQueryConfig)
\* ------------------------------------------------------------------------
createColumnType(name, type) == [name |-> name, type |-> type]
createQueryConfig(id, columnTypeArray) == [id |-> id, columnTypes |-> columnTypeArray]

USER_SHEET_ID == 1000
GROUP_SHEET_ID == 2000
MISSING_SHEET_ID == USER_SHEET_ID + GROUP_SHEET_ID

USER_COLUMN_TYPES ==
    << createColumnType(<<"User", " ", "ID">>, "string"),
       createColumnType(<<"Group", " ", "ID">>, "string"),
       createColumnType(<<"Name">>, "string"),
       createColumnType(<<"Age">>, "number"),
       createColumnType(<<"Is", " ", "Employed">>, "boolean") >>

GROUP_COLUMN_TYPES ==
    << createColumnType(<<"Group", " ", "ID">>, "string"),
       createColumnType(<<"Name">>, "string"),
       createColumnType(<<"Ave.", " ", "Grades">>, "number") >>

userQueryConfig == createQueryConfig(USER_SHEET_ID, USER_COLUMN_TYPES)
groupQueryConfig == createQueryConfig(GROUP_SHEET_ID, GROUP_COLUMN_TYPES)
missingQueryConfig == createQueryConfig(MISSING_SHEET_ID, GROUP_COLUMN_TYPES)

\* The lists of configs a caller passes to useSheetQuery.
ConfigLists ==
    { <<groupQueryConfig>>,
      <<userQueryConfig, groupQueryConfig>>,
      <<groupQueryConfig, userQueryConfig>>,
      <<missingQueryConfig, groupQueryConfig>>,
      <<groupQueryConfig, missingQueryConfig>> }

\* ------------------------------------------------------------------------
\* The spreadsheet: one grid of cells per sheet id, row 1 is the header.
\* ------------------------------------------------------------------------
SheetIds == {USER_SHEET_ID, GROUP_SHEET_ID}

TypeToken(type) ==
    CASE type = "string" -> "<string>"
      [] type = "number" -> "<number>"
      [] type = "boolean" -> "<boolean>"
      [] OTHER -> "<Date>"

\* The header text "name <type>" of a column.
Annotated(columnType) == Str(columnType.name \o <<" ", TypeToken(columnType.type)>>)

HeaderOf(columnTypes) == [i \in DOMAIN columnTypes |-> Annotated(columnTypes[i])]

Bool(b) == [kind |-> "boolean", str |-> <<>>, num |-> IF b THEN 1 ELSE 0]

GroupBodies ==
    { <<>>,
      << <<Str(<<"0123">>), Str(<<"aaa">>), Num(1)>>,
         <<Str(<<"4567">>), Str(<<"bbb">>), Num(6)>> >> }

\* Header rows of the user sheet: a valid one, one with a cell that is not
\* a string, one with a bare column name, one annotated with a type the
\* schema does not declare for that name.
UserHeaders ==
    { HeaderOf(USER_COLUMN_TYPES),
      [HeaderOf(USER_COLUMN_TYPES) EXCEPT ![4] = Num(5)],
      [HeaderOf(USER_COLUMN_TYPES) EXCEPT ![3] = Str(<<"Name">>)],
      [HeaderOf(USER_COLUMN_TYPES) EXCEPT ![4] = Str(<<"Age", " ", "<string>">>)] }

UserBody ==
    << <<Str(<<"u1">>), Str(<<"0123">>), Str(<<"Ann">>), Num(30), Bool(TRUE)>> >>

Width(grid) == Len(grid[1])

\* Range.getValues() of sheet.getDataRange(): the whole grid.
getValues(grid) == grid

Max(a, b) == IF a >= b THEN a ELSE b

\* sheet.getRange(row, column, numRows, numColumns).setValues(values):
\* overwrites the block, cells of the grid outside the block keep their
\* content, and a block that reaches beyond the grid extends it with empty
\* cells.
setValues(grid, row, column, numRows, numColumns, values) ==
    LET rows == Max(Len(grid), row + numRows - 1)
        cols == Max(Width(grid), column + numColumns - 1)
    IN  [r \in 1..rows |->
            [c \in 1..cols |->
                IF /\ r >= row /\ r < row + numRows
                   /\ c >= column /\ c < column + numColumns
                THEN values[r - row + 1][c - column + 1]
                ELSE IF r <= Len(grid) /\ c <= Width(grid)
                THEN grid[r][c]
                ELSE EmptyCell]]

\* ------------------------------------------------------------------------
\* validateColumnTypes: the first header cell that fails decides the error.
\* ------------------------------------------------------------------------
\* Mutant: a cell that is not a string is skipped instead of rejected.
HeaderErrorSkippingNonString(rawHeader, columnTypes) ==
    IF rawHeader.kind # "string"
    THEN NoError
    ELSE LET matched == HEADER_REGEX(rawHeader.str)
         IN  IF ~matched.matched
             THEN MkError("Header does not properly defined.", rawHeader, 0)
             ELSE IF ~\E i \in DOMAIN columnTypes :
                        /\ columnTypes[i].type = matched.type
                        /\ columnTypes[i].name = matched.header
             THEN MkError("Unknown headers are defined.", rawHeader, 0)
             ELSE NoError

\* Mutant: the column is looked up by name alone, (t) => t.name === header.
HeaderErrorByNameOnly(rawHeader, columnTypes) ==
    IF rawHeader.kind # "string"
    THEN MkError("Header does not type of string.", rawHeader, 0)
    ELSE LET matched == HEADER_REGEX(rawHeader.str)
         IN  IF ~matched.matched
             THEN MkError("Header does not properly defined.", rawHeader, 0)
             ELSE IF ~\E i \in DOMAIN columnTypes :
                        columnTypes[i].name = matched.header
             THEN MkError("Unknown headers are defined.", rawHeader, 0)
             ELSE NoError

HeaderError(rawHeader, columnTypes) ==
    IF rawHeader.kind # "string"
    THEN MkError("Header does not type of string.", rawHeader, 0)
    ELSE LET matched == HEADER_REGEX(rawHeader.str)
         IN  IF ~matched.matched
             THEN MkError("Header does not properly defined.", rawHeader, 0)
             ELSE IF ~\E i \in DOMAIN columnTypes :
                        /\ columnTypes[i].type = matched.type
                        /\ columnTypes[i].name = matched.header
             THEN MkError("Unknown headers are defined.", rawHeader, 0)
             ELSE NoError

validateColumnTypes(sheetValues, columnTypes) ==
    LET headers == sheetValues[1]
        bad == {i \in DOMAIN headers : HeaderError(headers[i], columnTypes).isError}
    IN  IF bad = {} THEN NoError
        ELSE HeaderError(headers[CHOOSE i \in bad : \A j \in bad : i <= j], columnTypes)

\* ------------------------------------------------------------------------
\* Records: decode of a body row and encode of a record
\* ------------------------------------------------------------------------
ColumnNames(columnTypes) == {columnTypes[i].name : i \in DOMAIN columnTypes}

\* columnTypes.reduce((acc, {name}, index) => ({...acc, [name]: row[index]}))
RowToRecord(row, columnTypes) ==
    [name \in ColumnNames(columnTypes) |->
        LET index == CHOOSE i \in DOMAIN columnTypes :
                        /\ columnTypes[i].name = name
                        /\ \A j \in DOMAIN columnTypes :
                              columnTypes[j].name = name => j <= i
        IN  IF index <= Len(row) THEN row[index] ELSE Undefined]

\* Mutant: the values are emitted in the reverse of the schema's column
\* order.
RecordToRowReversed(record, columnTypes) ==
    [i \in DOMAIN columnTypes |->
        IF columnTypes[Len(columnTypes) - i + 1].name \in DOMAIN record
        THEN record[columnTypes[Len(columnTypes) - i + 1].name]
        ELSE Undefined]

\* columnTypes.map(({name}) => record[name])
RecordToRow(record, columnTypes) ==
    [i \in DOMAIN columnTypes |->
        IF columnTypes[i].name \in DOMAIN record
        THEN record[columnTypes[i].name]
        ELSE Undefined]

MapRows(values, columnTypes) ==
    [r \in DOMAIN values |-> RowToRecord(values[r], columnTypes)]

MapRecords(records, columnTypes) ==
    [r \in DOMAIN records |-> RecordToRow(records[r], columnTypes)]

\* ------------------------------------------------------------------------
\* Inputs of the caller's procedure
\* ------------------------------------------------------------------------
MaxRecords == 3

GroupRecord(id, name, grade) ==
    RowToRecord(<<Str(<<id>>), Str(<<name>>), Num(grade)>>, GROUP_COLUMN_TYPES)

UserRecord(id, group, name, age) ==
    RowToRecord(<<Str(<<id>>), Str(<<group>>), Str(<<name>>), Num(age), Bool(FALSE)>>,
                USER_COLUMN_TYPES)

\* The record lists passed to set and append.
RecordLists(id) ==
    IF id = GROUP_SHEET_ID
    THEN { <<>>,
           << GroupRecord("0123", "aaa", 1), GroupRecord("4567", "bbb", 6) >>,
           << GroupRecord("1234", "bbb", 2) >> }
    ELSE { <<>>, << UserRecord("u2", "4567", "Bob", 41) >> }

\* The conditions passed to deleteIf.
Conditions == {"none", "all", "gradeGt1"}

GradeKey == <<"Ave.", " ", "Grades">>

\* condition(record); (v) => v["Ave. Grades"] > 1 is false when the record
\* has no such key.
Condition(cond, record) ==
    CASE cond = "all" -> TRUE
      [] cond = "gradeGt1" ->
            /\ GradeKey \in DOMAIN record
            /\ record[GradeKey].kind = "number"
            /\ record[GradeKey].num > 1
      [] OTHER -> FALSE

\* The values the procedure returns and the values it throws (an Error and
\* a string).
Values == {"v1", "v2"}
Throwables ==
    { MkError("procedure failed", EmptyCell, 0),
      [isError |-> FALSE, msg |-> "thrown string", cell |-> EmptyCell, id |-> 0] }

\* The options argument of useSheetQuery: absent (undefined), or an object
\* with or without a `timeouts` field.
NoOptions == [given |-> FALSE, hasTimeouts |-> FALSE, timeouts |-> 0]
EmptyOptions == [given |-> TRUE, hasTimeouts |-> FALSE, timeouts |-> 0]
WithTimeouts(ms) == [given |-> TRUE, hasTimeouts |-> TRUE, timeouts |-> ms]

defaultOptions == WithTimeouts(5000)

\* Mutant: the default is taken with ||, which also replaces a given 0.
fillOptionsOr(options) ==
    LET o == IF options.given THEN options ELSE defaultOptions
    IN  [o EXCEPT !.hasTimeouts = TRUE,
                  !.timeouts = IF o.hasTimeouts /\ o.timeouts # 0 THEN o.timeouts
                               ELSE defaultOptions.timeouts]

\* options = options ?? defaultOptions;
\* options.timeouts = options.timeouts ?? defaultOptions.timeouts
fillOptions(options) ==
    LET o == IF options.given THEN options ELSE defaultOptions
    IN  [o EXCEPT !.hasTimeouts = TRUE,
                  !.timeouts = IF o.hasTimeouts THEN o.timeouts
                               ELSE defaultOptions.timeouts]

\* The options callers pass.
OptionsPassed == {NoOptions, EmptyOptions, WithTimeouts(0), WithTimeouts(100)}

\* ------------------------------------------------------------------------
\* State
\* ------------------------------------------------------------------------
VARIABLES
    store,       \* the spreadsheet: sheet id -> grid
    lockHolder,  \* LockService.getScriptLock(): the execution holding it, 0 if free
    pc,          \* where each execution is
    sheets,      \* module-level `sheets` of each execution (the sheet ids listed)
    configs,     \* the configs passed to useSheetQuery
    queries,     \* the sessions opened so far (`queries`), with their __records
    result,      \* the Result of useSheetQuery
    opsLeft,     \* session calls the running proc may still make (model bound)
    hist,        \* per execution: what it did (history, not read by the code)
    committers,  \* per sheet: the executions that committed to it (history)
    lastCommitted \* per sheet: the rows of the last commit to it (history)

vars == <<store, lockHolder, pc, sheets, configs, queries, result, opsLeft, hist, committers,
          lastCommitted>>

NoHist ==
    [ calls |-> 1,             \* the calls of useSheetQuery so far, this one included
      waitOutcome |-> "none",  \* "acquired" or "timeout" once waitLock ended
      releases |-> 0,          \* calls of lock.releaseLock()
      invoked |-> 0,           \* calls of proc
      opens |-> 0,             \* calls of createSheetQuery
      waits |-> 0,             \* calls of lock.waitLock()
      unlocked |-> {},         \* kinds of store access made without the lock
      writes |-> 0,            \* setValues calls
      returned |-> "",         \* the value proc returned
      thrown |-> NoError,      \* the first value thrown
      failedAt |-> 0,          \* position of the config whose session failed to open
      committed |-> {},        \* the sheets this call committed to
      before |-> <<>>,         \* the spreadsheet when the lock was acquired
      options |-> NoOptions,   \* the options argument of the call
      timeouts |-> 0,          \* options.timeouts once the defaults are filled in
      waitedFor |-> -1,        \* the wait passed to lock.waitLock(), -1 before the call
      responses |-> <<>> ]     \* what apiHandler(fn) returned to its caller

Init ==
    /\ \E gb \in GroupBodies, uh \in UserHeaders :
          store = [id \in SheetIds |->
                      IF id = GROUP_SHEET_ID
                      THEN <<HeaderOf(GROUP_COLUMN_TYPES)>> \o gb
                      ELSE <<uh>> \o UserBody]
    /\ lockHolder = 0
    /\ pc = [p \in Procs |-> "load"]
    /\ sheets = [p \in Procs |-> <<>>]
    /\ configs = [p \in Procs |-> <<>>]
    /\ queries = [p \in Procs |-> <<>>]
    /\ result = [p \in Procs |-> NoResult]
    /\ opsLeft = [p \in Procs |-> 0]
    /\ hist = [p \in Procs |-> NoHist]
    /\ committers = [id \in SheetIds |-> {}]
    /\ lastCommitted = [id \in SheetIds |-> <<>>]

\* The kinds of store access an execution makes without holding the lock.
Access(p, kind) == IF lockHolder = p THEN hist[p].unlocked ELSE hist[p].unlocked \cup {kind}

\* SpreadsheetApp.getActive().getSheets(): the sheets the spreadsheet has,
\* here by id (a sheet that does not exist has no grid).
getSheets == SelectSeq(<<USER_SHEET_ID, GROUP_SHEET_ID>>, LAMBDA id : store[id] # <<>>)

\* Module level: `lock` and `sheets` are set when the execution loads the
\* script, before any call of useSheetQuery.
LoadModule(p) ==
    /\ pc[p] = "load"
    /\ sheets' = [sheets EXCEPT ![p] = getSheets]
    /\ hist' = [hist EXCEPT ![p].unlocked = Access(p, "list")]
    /\ pc' = [pc EXCEPT ![p] = "idle"]
    /\ UNCHANGED <<store, lockHolder, configs, queries, result, opsLeft, committers, lastCommitted>>

\* A call useSheetQuery(proc, configs): up to the try block.
useSheetQuery(p, cs, options) ==
    /\ pc[p] = "idle"
    /\ configs' = [configs EXCEPT ![p] = cs]
    /\ hist' = [hist EXCEPT ![p].options = options,
                             ![p].timeouts = fillOptions(options).timeouts]
    /\ pc' = [pc EXCEPT ![p] = "wait"]
    /\ UNCHANGED <<store, lockHolder, sheets, queries, result, opsLeft, committers, lastCommitted>>

\* Mutant: the lock is released at the end of the try block instead of in a
\* finally clause, so a throw hands the Result back with the lock held.
CaughtWithoutFinally(p, thrown, h) ==
    /\ result' = [result EXCEPT ![p] = CatchError(thrown)]
    /\ hist' = [hist EXCEPT ![p] = [h EXCEPT !.thrown = thrown]]
    /\ pc' = [pc EXCEPT ![p] = "done"]
    /\ opsLeft' = [opsLeft EXCEPT ![p] = 0]

\* A throw inside the try block: the catch clause makes the Result, the
\* finally clause is next.
Caught(p, thrown, h) ==
    /\ result' = [result EXCEPT ![p] = CatchError(thrown)]
    /\ hist' = [hist EXCEPT ![p] = [h EXCEPT !.thrown = thrown]]
    /\ pc' = [pc EXCEPT ![p] = "finally"]
    /\ opsLeft' = [opsLeft EXCEPT ![p] = 0]

\* Mutant: the call goes on without waiting for the lock to be free.
waitLockWithoutWaiting(p) ==
    /\ pc[p] = "wait"
    /\ lockHolder' = p
    /\ hist' = [hist EXCEPT ![p].waitOutcome = "acquired", ![p].waits = @ + 1,
                             ![p].waitedFor = hist[p].timeouts,
                             ![p].before = store]
    /\ pc' = [pc EXCEPT ![p] = "open"]
    /\ UNCHANGED <<store, sheets, configs, queries, result, opsLeft, committers, lastCommitted>>

\* lock.waitLock(timeouts) returns: the lock was free and is now held.
waitLock(p) ==
    /\ pc[p] = "wait"
    /\ lockHolder = 0
    /\ lockHolder' = p
    /\ hist' = [hist EXCEPT ![p].waitOutcome = "acquired", ![p].waits = @ + 1,
                             ![p].waitedFor = hist[p].timeouts,
                             ![p].before = store]
    /\ pc' = [pc EXCEPT ![p] = "open"]
    /\ UNCHANGED <<store, sheets, configs, queries, result, opsLeft, committers, lastCommitted>>

LockTimeout == MkError("Lock timeout", EmptyCell, 0)

\* Mutant: the failed wait is not thrown (as with an unchecked tryLock) and
\* the call goes on to open its sessions.
waitLockTimeoutIgnored(p) ==
    /\ pc[p] = "wait"
    /\ lockHolder \notin {0, p}
    /\ hist' = [hist EXCEPT ![p].waitOutcome = "timeout", ![p].waits = @ + 1,
                             ![p].waitedFor = hist[p].timeouts]
    /\ pc' = [pc EXCEPT ![p] = "open"]
    /\ UNCHANGED <<store, lockHolder, sheets, configs, queries, result, opsLeft,
                   committers, lastCommitted>>

\* Mutant: a wait that timed out is made once more before the timeout is
\* thrown.
waitLockTimeoutRetried(p) ==
    /\ pc[p] = "wait"
    /\ lockHolder \notin {0, p}
    /\ IF hist[p].waits = 0
       THEN /\ hist' = [hist EXCEPT ![p].waits = @ + 1,
                                    ![p].waitedFor = hist[p].timeouts]
            /\ UNCHANGED <<pc, result, opsLeft>>
       ELSE Caught(p, LockTimeout,
                   [hist[p] EXCEPT !.waitOutcome = "timeout", !.waits = @ + 1,
                                   !.waitedFor = hist[p].timeouts])
    /\ UNCHANGED <<store, lockHolder, sheets, configs, queries, committers, lastCommitted>>

\* lock.waitLock(timeouts) throws: another execution held the lock for the
\* whole wait.
waitLockTimeout(p) ==
    /\ pc[p] = "wait"
    /\ lockHolder \notin {0, p}
    /\ Caught(p, LockTimeout,
              [hist[p] EXCEPT !.waitOutcome = "timeout", !.waits = @ + 1,
                              !.waitedFor = hist[p].timeouts])
    /\ UNCHANGED <<store, lockHolder, sheets, configs, queries, committers, lastCommitted>>

\* Mutant: the first body row is indexed before the rows are decoded
\* (values[0].length), which throws on a sheet with no body row.
createSheetQueryIndexingFirstRow(config, sheetList, st) ==
    IF ~\E i \in DOMAIN sheetList : sheetList[i] = config.id
    THEN [error |-> MkError("There's no sheet of id", EmptyCell, config.id),
          read |-> FALSE, query |-> <<>>]
    ELSE LET sheetValues == getValues(st[config.id])
             invalid == validateColumnTypes(sheetValues, config.columnTypes)
             values == Tail(sheetValues)
         IN  IF invalid.isError
             THEN [error |-> invalid, read |-> TRUE, query |-> <<>>]
             ELSE IF values = <<>>
             THEN [error |-> MkError("TypeError: Cannot read properties of undefined",
                                     EmptyCell, 0),
                   read |-> TRUE, query |-> <<>>]
             ELSE [error |-> NoError, read |-> TRUE,
                   query |-> << [id |-> config.id,
                                 columnTypes |-> config.columnTypes,
                                 records |-> MapRows(values, config.columnTypes),
                                 held |-> <<>>,
                                 seen |-> sheetValues] >>]

\* createSheetQuery({id, columnTypes}, sheets): the thrown error, or the
\* session with its decoded __records.
createSheetQuery(config, sheetList, st) ==
    IF ~\E i \in DOMAIN sheetList : sheetList[i] = config.id
    THEN [error |-> MkError("There's no sheet of id", EmptyCell, config.id),
          read |-> FALSE, query |-> <<>>]
    ELSE LET sheetValues == getValues(st[config.id])
             invalid == validateColumnTypes(sheetValues, config.columnTypes)
             values == Tail(sheetValues)
         IN  IF invalid.isError
             THEN [error |-> invalid, read |-> TRUE, query |-> <<>>]
             ELSE [error |-> NoError, read |-> TRUE,
                   query |-> << [id |-> config.id,
                                 columnTypes |-> config.columnTypes,
                                 records |-> MapRows(values, config.columnTypes),
                                 held |-> <<>>,
                                 seen |-> sheetValues] >>]

\* Mutant: a session that fails to open is logged and left out, and proc is
\* called with the sessions opened before it.
OpenQueryIgnoringFailure(p) ==
    /\ pc[p] = "open"
    /\ Len(queries[p]) < Len(configs[p])
    /\ LET opened == createSheetQuery(configs[p][Len(queries[p]) + 1], sheets[p], store)
           h == [hist[p] EXCEPT !.opens = @ + 1,
                                !.unlocked = IF opened.read THEN Access(p, "read") ELSE @,
                                !.failedAt = IF opened.error.isError
                                             THEN Len(queries[p]) + 1 ELSE @]
       IN  IF opened.error.isError
           THEN /\ hist' = [hist EXCEPT ![p] = [h EXCEPT !.invoked = @ + 1]]
                /\ pc' = [pc EXCEPT ![p] = "run"]
                /\ opsLeft' = [opsLeft EXCEPT ![p] = MaxOps]
                /\ UNCHANGED <<queries, result>>
           ELSE /\ queries' = [queries EXCEPT ![p] = @ \o opened.query]
                /\ hist' = [hist EXCEPT ![p] = h]
                /\ UNCHANGED <<pc, result, opsLeft>>
    /\ UNCHANGED <<store, lockHolder, sheets, configs, committers, lastCommitted>>

\* Mutant: each opened session is put in front of the sessions opened
\* before it, so proc receives the sessions in the reverse of schema order.
OpenQueryReversed(p) ==
    /\ pc[p] = "open"
    /\ Len(queries[p]) < Len(configs[p])
    /\ LET opened == createSheetQuery(configs[p][Len(queries[p]) + 1], sheets[p], store)
           h == [hist[p] EXCEPT !.opens = @ + 1,
                                !.unlocked = IF opened.read THEN Access(p, "read") ELSE @,
                                !.failedAt = IF opened.error.isError
                                             THEN Len(queries[p]) + 1 ELSE @]
       IN  IF opened.error.isError
           THEN /\ Caught(p, opened.error, h)
                /\ UNCHANGED queries
           ELSE /\ queries' = [queries EXCEPT ![p] = opened.query \o @]
                /\ hist' = [hist EXCEPT ![p] = h]
                /\ UNCHANGED <<pc, result, opsLeft>>
    /\ UNCHANGED <<store, lockHolder, sheets, configs, committers, lastCommitted>>

\* One step of configs.map((config) => createSheetQuery(config, sheets)).
OpenQuery(p) ==
    /\ pc[p] = "open"
    /\ Len(queries[p]) < Len(configs[p])
    /\ LET opened == createSheetQuery(configs[p][Len(queries[p]) + 1], sheets[p], store)
           h == [hist[p] EXCEPT !.opens = @ + 1,
                                !.unlocked = IF opened.read THEN Access(p, "read") ELSE @,
                                !.failedAt = IF opened.error.isError
                                             THEN Len(queries[p]) + 1 ELSE @]
       IN  IF opened.error.isError
           THEN /\ Caught(p, opened.error, h)
                /\ UNCHANGED queries
           ELSE /\ queries' = [queries EXCEPT ![p] = @ \o opened.query]
                /\ hist' = [hist EXCEPT ![p] = h]
                /\ UNCHANGED <<pc, result, opsLeft>>
    /\ UNCHANGED <<store, lockHolder, sheets, configs, committers, lastCommitted>>

\* Mutant: the lock is released once the sessions are open, before proc
\* runs.
InvokeProcReleasingLock(p) ==
    /\ pc[p] = "open"
    /\ Len(queries[p]) = Len(configs[p])
    /\ pc' = [pc EXCEPT ![p] = "run"]
    /\ lockHolder' = 0
    /\ opsLeft' = [opsLeft EXCEPT ![p] = MaxOps]
    /\ hist' = [hist EXCEPT ![p].invoked = @ + 1]
    /\ UNCHANGED <<store, sheets, configs, queries, result, committers, lastCommitted>>

\* proc(queries) is called once every session is open.
InvokeProc(p) ==
    /\ pc[p] = "open"
    /\ Len(queries[p]) = Len(configs[p])
    /\ pc' = [pc EXCEPT ![p] = "run"]
    /\ opsLeft' = [opsLeft EXCEPT ![p] = MaxOps]
    /\ hist' = [hist EXCEPT ![p].invoked = @ + 1]
    /\ UNCHANGED <<store, lockHolder, sheets, configs, queries, result, committers, lastCommitted>>

InProc(p, i) ==
    /\ pc[p] = "run"
    /\ i \in DOMAIN queries[p]
    /\ opsLeft[p] > 0

\* What read() of a session returns: read = () => __records
readValue(query) == query.records

\* read = () => __records
read(p, i) ==
    /\ InProc(p, i)
    /\ opsLeft' = [opsLeft EXCEPT ![p] = @ - 1]
    /\ UNCHANGED <<store, lockHolder, pc, sheets, configs, queries, result, hist, committers, lastCommitted>>

\* const held = query.read(): the procedure keeps the list read() returned
\* (`held` of the session is that local of the procedure).
readAndKeep(p, i) ==
    /\ InProc(p, i)
    /\ queries' = [queries EXCEPT ![p][i].held = readValue(queries[p][i])]
    /\ opsLeft' = [opsLeft EXCEPT ![p] = @ - 1]
    /\ UNCHANGED <<store, lockHolder, pc, sheets, configs, result, hist, committers, lastCommitted>>

\* Mutant: set writes the given records to the sheet at once.
setWritingThrough(p, i, records) ==
    /\ InProc(p, i)
    /\ queries' = [queries EXCEPT ![p][i].records = records]
    /\ store' = IF records = <<>> THEN store
                ELSE LET q == queries[p][i]
                         values == MapRecords(records, q.columnTypes)
                     IN  [store EXCEPT ![q.id] =
                             setValues(@, 2, 1, Len(values), Len(values[1]), values)]
    /\ opsLeft' = [opsLeft EXCEPT ![p] = @ - 1]
    /\ UNCHANGED <<lockHolder, pc, sheets, configs, result, hist, committers, lastCommitted>>

\* Mutant: __records is one variable shared by the sessions of the call
\* (declared outside createSheetQuery), so set replaces it for all of them.
setShared(p, i, records) ==
    /\ InProc(p, i)
    /\ queries' = [queries EXCEPT ![p] =
                      [j \in DOMAIN @ |-> [@[j] EXCEPT !.records = records]]]
    /\ opsLeft' = [opsLeft EXCEPT ![p] = @ - 1]
    /\ UNCHANGED <<store, lockHolder, pc, sheets, configs, result, hist, committers, lastCommitted>>

\* Mutant: set keeps the records it finds and adds the given ones.
setKeepingOld(p, i, records) ==
    /\ InProc(p, i)
    /\ queries' = [queries EXCEPT ![p][i].records =
                      IF Len(@) + Len(records) <= MaxRecords THEN @ \o records ELSE records]
    /\ opsLeft' = [opsLeft EXCEPT ![p] = @ - 1]
    /\ UNCHANGED <<store, lockHolder, pc, sheets, configs, result, hist, committers, lastCommitted>>

\* set = (records) => { __records = records }
set(p, i, records) ==
    /\ InProc(p, i)
    /\ queries' = [queries EXCEPT ![p][i].records = records]
    /\ opsLeft' = [opsLeft EXCEPT ![p] = @ - 1]
    /\ UNCHANGED <<store, lockHolder, pc, sheets, configs, result, hist, committers, lastCommitted>>

\* Mutant: the new records are put before the working set,
\* [...records, ...__records].
appendInFront(p, i, records) ==
    /\ InProc(p, i)
    /\ Len(queries[p][i].records) + Len(records) <= MaxRecords
    /\ queries' = [queries EXCEPT ![p][i].records = records \o @]
    /\ opsLeft' = [opsLeft EXCEPT ![p] = @ - 1]
    /\ UNCHANGED <<store, lockHolder, pc, sheets, configs, result, hist, committers, lastCommitted>>

\* Mutant: the records are pushed onto the array in place,
\* __records.push(...records), so a list read() returned earlier, being
\* that array, grows too.
appendInPlace(p, i, records) ==
    /\ InProc(p, i)
    /\ Len(queries[p][i].records) + Len(records) <= MaxRecords
    /\ queries' = [queries EXCEPT ![p][i].records = @ \o records,
                                  ![p][i].held =
                                      IF @ = queries[p][i].records THEN @ \o records ELSE @]
    /\ opsLeft' = [opsLeft EXCEPT ![p] = @ - 1]
    /\ UNCHANGED <<store, lockHolder, pc, sheets, configs, result, hist, committers, lastCommitted>>

\* append = (records) => { __records = [...__records, ...records] }
append(p, i, records) ==
    /\ InProc(p, i)
    /\ Len(queries[p][i].records) + Len(records) <= MaxRecords
    /\ queries' = [queries EXCEPT ![p][i].records = @ \o records]
    /\ opsLeft' = [opsLeft EXCEPT ![p] = @ - 1]
    /\ UNCHANGED <<store, lockHolder, pc, sheets, configs, result, hist, committers, lastCommitted>>

\* Mutant: the negation is missing, __records.filter((r) => condition(r)).
FilterKeepingMatches(records, cond) == SelectSeq(records, LAMBDA r : Condition(cond, r))

\* __records.filter((r) => !condition(r))
Filter(records, cond) == SelectSeq(records, LAMBDA r : ~Condition(cond, r))

\* deleteIf = (condition) => { __records = __records.filter(...) }
deleteIf(p, i, cond) ==
    /\ InProc(p, i)
    /\ queries' = [queries EXCEPT ![p][i].records = Filter(@, cond)]
    /\ opsLeft' = [opsLeft EXCEPT ![p] = @ - 1]
    /\ UNCHANGED <<store, lockHolder, pc, sheets, configs, result, hist, committers, lastCommitted>>

TypeError == MkError("TypeError: Cannot read properties of undefined", EmptyCell, 0)

\* Mutant: the rows are written to the first sheet of the list, sheets[0],
\* instead of the sheet found by id.
commitToFirstSheet(p, i) ==
    /\ InProc(p, i)
    /\ LET q == queries[p][i]
           values == MapRecords(q.records, q.columnTypes)
       IN  IF Len(values) = 0
           THEN /\ Caught(p, TypeError, hist[p])
                /\ UNCHANGED <<store, queries, committers, lastCommitted>>
           ELSE /\ store' = [store EXCEPT ![sheets[p][1]] =
                                setValues(@, 2, 1, Len(values), Len(values[1]), values)]
                /\ queries' = [queries EXCEPT ![p][i].seen = store'[q.id]]
                /\ hist' = [hist EXCEPT ![p].writes = @ + 1,
                                         ![p].unlocked = Access(p, "write"),
                                         ![p].committed = @ \cup {q.id}]
                /\ committers' = [committers EXCEPT ![q.id] = @ \cup {p}]
                /\ lastCommitted' = [lastCommitted EXCEPT ![q.id] = values]
                /\ opsLeft' = [opsLeft EXCEPT ![p] = @ - 1]
                /\ UNCHANGED <<pc, result>>
    /\ UNCHANGED <<lockHolder, sheets, configs>>

\* Mutant: the rows are written from row 1, over the header.
commitFromFirstRow(p, i) ==
    /\ InProc(p, i)
    /\ LET q == queries[p][i]
           values == MapRecords(q.records, q.columnTypes)
       IN  IF Len(values) = 0
           THEN /\ Caught(p, TypeError, hist[p])
                /\ UNCHANGED <<store, queries, committers, lastCommitted>>
           ELSE /\ store' = [store EXCEPT ![q.id] =
                                setValues(@, 1, 1, Len(values), Len(values[1]), values)]
                /\ queries' = [queries EXCEPT ![p][i].seen = store'[q.id]]
                /\ hist' = [hist EXCEPT ![p].writes = @ + 1,
                                         ![p].unlocked = Access(p, "write"),
                                         ![p].committed = @ \cup {q.id}]
                /\ committers' = [committers EXCEPT ![q.id] = @ \cup {p}]
                /\ lastCommitted' = [lastCommitted EXCEPT ![q.id] = values]
                /\ opsLeft' = [opsLeft EXCEPT ![p] = @ - 1]
                /\ UNCHANGED <<pc, result>>
    /\ UNCHANGED <<lockHolder, sheets, configs>>

\* Mutant: the working set is emptied once its rows are written.
commitClearingRecords(p, i) ==
    /\ InProc(p, i)
    /\ LET q == queries[p][i]
           values == MapRecords(q.records, q.columnTypes)
       IN  IF Len(values) = 0
           THEN /\ Caught(p, TypeError, hist[p])
                /\ UNCHANGED <<store, queries, committers, lastCommitted>>
           ELSE /\ store' = [store EXCEPT ![q.id] =
                                setValues(@, 2, 1, Len(values), Len(values[1]), values)]
                /\ queries' = [queries EXCEPT ![p][i].seen = store'[q.id],
                                              ![p][i].records = <<>>]
                /\ hist' = [hist EXCEPT ![p].writes = @ + 1,
                                         ![p].unlocked = Access(p, "write"),
                                         ![p].committed = @ \cup {q.id}]
                /\ committers' = [committers EXCEPT ![q.id] = @ \cup {p}]
                /\ lastCommitted' = [lastCommitted EXCEPT ![q.id] = values]
                /\ opsLeft' = [opsLeft EXCEPT ![p] = @ - 1]
                /\ UNCHANGED <<pc, result>>
    /\ UNCHANGED <<lockHolder, sheets, configs>>

\* commit: values[0].length throws a TypeError when __records is empty;
\* otherwise the rows are written from row 2, column 1.
commit(p, i) ==
    /\ InProc(p, i)
    /\ LET q == queries[p][i]
           values == MapRecords(q.records, q.columnTypes)
       IN  IF Len(values) = 0
           THEN /\ Caught(p, TypeError, hist[p])
                /\ UNCHANGED <<store, queries, committers, lastCommitted>>
           ELSE /\ store' = [store EXCEPT ![q.id] =
                                setValues(@, 2, 1, Len(values), Len(values[1]), values)]
                /\ queries' = [queries EXCEPT ![p][i].seen = store'[q.id]]
                /\ hist' = [hist EXCEPT ![p].writes = @ + 1,
                                         ![p].unlocked = Access(p, "write"),
                                         ![p].committed = @ \cup {q.id}]
                /\ committers' = [committers EXCEPT ![q.id] = @ \cup {p}]
                /\ lastCommitted' = [lastCommitted EXCEPT ![q.id] = values]
                /\ opsLeft' = [opsLeft EXCEPT ![p] = @ - 1]
                /\ UNCHANGED <<pc, result>>
    /\ UNCHANGED <<lockHolder, sheets, configs>>

\* Mutant: the value proc returned is dropped (proc(queries); return
\* Ok(undefined)).
ProcReturnDroppingValue(p, v) ==
    /\ pc[p] = "run"
    /\ result' = [result EXCEPT ![p] = Ok("")]
    /\ hist' = [hist EXCEPT ![p].returned = v]
    /\ pc' = [pc EXCEPT ![p] = "finally"]
    /\ opsLeft' = [opsLeft EXCEPT ![p] = 0]
    /\ UNCHANGED <<store, lockHolder, sheets, configs, queries, committers, lastCommitted>>

\* return Ok(proc(queries)): proc returned v.
ProcReturn(p, v) ==
    /\ pc[p] = "run"
    /\ result' = [result EXCEPT ![p] = Ok(v)]
    /\ hist' = [hist EXCEPT ![p].returned = v]
    /\ pc' = [pc EXCEPT ![p] = "finally"]
    /\ opsLeft' = [opsLeft EXCEPT ![p] = 0]
    /\ UNCHANGED <<store, lockHolder, sheets, configs, queries, committers, lastCommitted>>

\* Mutant: a throw of proc puts the spreadsheet back as it was when the
\* lock was acquired.
ProcThrowRollingBack(p, thrown) ==
    /\ pc[p] = "run"
    /\ Caught(p, thrown, hist[p])
    /\ store' = hist[p].before
    /\ UNCHANGED <<lockHolder, sheets, configs, queries, committers, lastCommitted>>

\* proc threw.
ProcThrow(p, thrown) ==
    /\ pc[p] = "run"
    /\ Caught(p, thrown, hist[p])
    /\ UNCHANGED <<store, lockHolder, sheets, configs, queries, committers, lastCommitted>>

\* Mutant: releaseLock frees the script lock whoever holds it.
releaseLockOfAnyHolder(p) ==
    /\ pc[p] = "finally"
    /\ lockHolder' = 0
    /\ hist' = [hist EXCEPT ![p].releases = @ + 1]
    /\ pc' = [pc EXCEPT ![p] = "done"]
    /\ queries' = [queries EXCEPT ![p] = <<>>]
    /\ UNCHANGED <<store, sheets, configs, result, opsLeft, committers, lastCommitted>>

\* finally { lock.releaseLock() }: releases the lock if this execution
\* holds it; then the Result is handed back and the sessions, which only
\* proc could reach, are gone.
releaseLock(p) ==
    /\ pc[p] = "finally"
    /\ lockHolder' = IF lockHolder = p THEN 0 ELSE lockHolder
    /\ hist' = [hist EXCEPT ![p].releases = @ + 1]
    /\ pc' = [pc EXCEPT ![p] = "done"]
    /\ queries' = [queries EXCEPT ![p] = <<>>]
    /\ UNCHANGED <<store, sheets, configs, result, opsLeft, committers, lastCommitted>>

\* A further call of useSheetQuery by an execution whose previous call has
\* returned.
MaxCalls == 2

NextCall(p) ==
    /\ pc[p] = "done"
    /\ hist[p].calls < MaxCalls
    /\ pc' = [pc EXCEPT ![p] = "idle"]
    /\ configs' = [configs EXCEPT ![p] = <<>>]
    /\ result' = [result EXCEPT ![p] = NoResult]
    /\ hist' = [hist EXCEPT ![p] = [NoHist EXCEPT !.calls = hist[p].calls + 1,
                                                  !.unlocked = hist[p].unlocked]]
    /\ UNCHANGED <<store, lockHolder, sheets, queries, opsLeft, committers, lastCommitted>>

\* The steps of one call of useSheetQuery after its arguments are bound.
\* The steps of useSheetQuery once the lock is free to take.
Uncontended(p) ==
    \/ waitLock(p)
    \/ OpenQuery(p)
    \/ InvokeProc(p)
    \/ \E v \in Values : ProcReturn(p, v)
    \/ \E thrown \in Throwables : ProcThrow(p, thrown)
    \/ releaseLock(p)

\* The steps of useSheetQuery when other executions contend for the lock.
Runner(p) ==
    \/ waitLockTimeout(p)
    \/ Uncontended(p)

\* Concurrent executions, each calling useSheetQuery once on the group
\* sheet; their procedures append one record and commit.
InitConcurrent ==
    /\ Init
    /\ store[USER_SHEET_ID] = <<HeaderOf(USER_COLUMN_TYPES)>> \o UserBody

ConcurrentConfigLists ==
    { <<groupQueryConfig>>, <<groupQueryConfig, missingQueryConfig>> }

Next ==
    \E p \in Procs :
        \/ LoadModule(p)
        \/ \E cs \in ConcurrentConfigLists : useSheetQuery(p, cs, NoOptions)
        \/ Runner(p)
        \/ \E records \in RecordLists(GROUP_SHEET_ID) :
              Len(records) = 1 /\ append(p, 1, records)
        \/ commit(p, 1)

Spec == InitConcurrent /\ [][Next]_vars

\* The concurrent executions under fair scheduling: each execution runs on
\* its own thread, lock.waitLock returns or throws within its timeout, and
\* the procedure terminates, so an execution that can take a step of
\* useSheetQuery eventually takes one.
\* Their procedures commit the group session once as it was opened, or
\* return or throw at once.
NextFair ==
    \E p \in Procs :
        \/ LoadModule(p)
        \/ useSheetQuery(p, <<groupQueryConfig>>, NoOptions)
        \/ Runner(p)
        \/ hist[p].writes = 0 /\ commit(p, 1)

SpecFair == InitConcurrent /\ [][NextFair]_vars /\ \A p \in Procs : WF_vars(Runner(p))

\* One execution that calls useSheetQuery repeatedly; its procedures make
\* every session call.
NextSession ==
    \E p \in {1} :
        \/ LoadModule(p)
        \/ \E cs \in ConfigLists : useSheetQuery(p, cs, NoOptions)
        \/ Uncontended(p)
        \/ NextCall(p)
        \/ \E i \in 1..2 :
              \/ read(p, i)
              \/ /\ i \in DOMAIN queries[p]
                 /\ \E records \in RecordLists(queries[p][i].id) :
                       set(p, i, records) \/ append(p, i, records)
              \/ \E cond \in Conditions : deleteIf(p, i, cond)
              \/ commit(p, i)

SpecSession == Init /\ [][NextSession]_vars

\* ------------------------------------------------------------------------
\* The example call of useSheetQuery: bundle = [userQueryConfig,
\* groupQueryConfig], and the procedure reads the user session, then on the
\* group session calls set, append, deleteIf and commit, and returns the
\* names and ages read from the user session.
\* ------------------------------------------------------------------------
bundle == <<userQueryConfig, groupQueryConfig>>

NoRecords == <<>>

Call(op, i, records, cond) == [op |-> op, i |-> i, records |-> records, cond |-> cond]

ExampleProc ==
    << Call("read", 1, NoRecords, "none"),
       Call("set", 2, << GroupRecord("0123", "aaa", 1), GroupRecord("4567", "bbb", 6) >>, "none"),
       Call("append", 2, << GroupRecord("1234", "bbb", 2) >>, "none"),
       Call("deleteIf", 2, NoRecords, "gradeGt1"),
       Call("commit", 2, NoRecords, "none") >>

\* The rows of the group sheet, by schema column, before the example runs.
ExampleBody ==
    << <<Str(<<"0123">>), Str(<<"aaa">>), Num(1)>>,
       <<Str(<<"4567">>), Str(<<"bbb">>), Num(6)>> >>

\* A sheet whose header row is `cells` and whose column k holds, in every
\* body row, the values of schema column from[k] (a column that belongs to
\* no schema column holds "x").
Layout(cells, from, body) ==
    <<cells>> \o
    [r \in DOMAIN body |->
        [k \in DOMAIN cells |-> IF from[k] = 0 THEN Str(<<"x">>) ELSE body[r][from[k]]]]

\* The header cell of schema column c of the group sheet: annotated, and
\* the bare column name.
A(c) == Annotated(GROUP_COLUMN_TYPES[c])
B(c) == Str(GROUP_COLUMN_TYPES[c].name)

\* The group sheets the example is run on: every ordering of the annotated
\* header, bare column names, a cell that is not a string, a name or a type
\* the schema does not declare, annotations off the grammar, a column name
\* in two cells, a schema column in no cell.
GroupSheets(body) ==
    { Layout(<<A(1), A(2), A(3)>>, <<1, 2, 3>>, body),
      Layout(<<A(1), A(3), A(2)>>, <<1, 3, 2>>, body),
      Layout(<<A(2), A(1), A(3)>>, <<2, 1, 3>>, body),
      Layout(<<A(2), A(3), A(1)>>, <<2, 3, 1>>, body),
      Layout(<<A(3), A(1), A(2)>>, <<3, 1, 2>>, body),
      Layout(<<A(3), A(2), A(1)>>, <<3, 2, 1>>, body),
      Layout(<<B(1), B(2), B(3)>>, <<1, 2, 3>>, body),
      Layout(<<A(1), B(2), A(3)>>, <<1, 2, 3>>, body),
      Layout(<<Num(7), A(2), A(3)>>, <<1, 2, 3>>, body),
      Layout(<<A(1), A(2), Bool(TRUE)>>, <<1, 2, 3>>, body),
      Layout(<<A(1), Str(<<"Email", " ", "<string>">>), Num(7)>>, <<1, 0, 3>>, body),
      Layout(<<A(1), A(2), A(3), Str(<<"Email", " ", "<string>">>)>>, <<1, 2, 3, 0>>, body),
      Layout(<<A(1), Str(<<"Name", " ", "<number>">>), A(3)>>, <<1, 2, 3>>, body),
      Layout(<<A(1), Str(<<"Name", " ", "<int>">>), A(3)>>, <<1, 2, 3>>, body),
      Layout(<<A(1), Str(<<"Name", "<string>">>), A(3)>>, <<1, 2, 3>>, body),
      Layout(<<A(1), A(2), A(3), A(2)>>, <<1, 2, 3, 0>>, body),
      Layout(<<A(1), A(2), A(2)>>, <<1, 2, 0>>, body),
      Layout(<<A(1), A(2)>>, <<1, 2>>, body),
      Layout(<<A(3)>>, <<3>>, body) }

InitExample ==
    /\ \E body \in {ExampleBody, SubSeq(ExampleBody, 1, 1)} :
          \E sheet \in GroupSheets(body) :
              store = [id \in SheetIds |->
                          IF id = GROUP_SHEET_ID THEN sheet
                          ELSE <<HeaderOf(USER_COLUMN_TYPES)>> \o UserBody]
    /\ lockHolder = 0
    /\ pc = [p \in Procs |-> "load"]
    /\ sheets = [p \in Procs |-> <<>>]
    /\ configs = [p \in Procs |-> <<>>]
    /\ queries = [p \in Procs |-> <<>>]
    /\ result = [p \in Procs |-> NoResult]
    /\ opsLeft = [p \in Procs |-> 0]
    /\ hist = [p \in Procs |-> NoHist]
    /\ committers = [id \in SheetIds |-> {}]
    /\ lastCommitted = [id \in SheetIds |-> <<>>]

\* proc(queries) with the example procedure: its calls are still to make.
InvokeExample(p) ==
    /\ pc[p] = "open"
    /\ Len(queries[p]) = Len(configs[p])
    /\ pc' = [pc EXCEPT ![p] = "run"]
    /\ opsLeft' = [opsLeft EXCEPT ![p] = Len(ExampleProc)]
    /\ hist' = [hist EXCEPT ![p].invoked = @ + 1]
    /\ UNCHANGED <<store, lockHolder, sheets, configs, queries, result, committers, lastCommitted>>

\* The next session call of the example procedure.
ExampleCall(p) ==
    /\ pc[p] = "run"
    /\ opsLeft[p] > 0
    /\ LET c == ExampleProc[Len(ExampleProc) - opsLeft[p] + 1]
       IN  CASE c.op = "read" -> read(p, c.i)
             [] c.op = "set" -> set(p, c.i, c.records)
             [] c.op = "append" -> append(p, c.i, c.records)
             [] c.op = "deleteIf" -> deleteIf(p, c.i, c.cond)
             [] OTHER -> commit(p, c.i)

\* return user.read().map(...): the procedure returns once its calls are
\* made; the value is not looked at by the runner and stands as "v1".
ExampleReturn(p) ==
    /\ pc[p] = "run"
    /\ opsLeft[p] = 0
    /\ ProcReturn(p, "v1")

NextExample ==
    \E p \in {1} :
        \/ LoadModule(p)
        \/ useSheetQuery(p, bundle, NoOptions)
        \/ waitLock(p)
        \/ OpenQuery(p)
        \/ InvokeExample(p)
        \/ ExampleCall(p)
        \/ ExampleReturn(p)
        \/ releaseLock(p)

SpecExample == InitExample /\ [][NextExample]_vars

\* One execution that opens sessions on the sheets of the example's layouts
\* and whose procedures only read and commit.
NextIdentity ==
    \E p \in {1} :
        \/ LoadModule(p)
        \/ \E cs \in {<<groupQueryConfig>>, bundle} : useSheetQuery(p, cs, NoOptions)
        \/ Uncontended(p)
        \/ NextCall(p)
        \/ \E i \in 1..2 : read(p, i) \/ commit(p, i)

SpecIdentity == InitExample /\ [][NextIdentity]_vars

\* One execution whose procedure commits its first session, reads it,
\* changes it by one set, append or deleteIf, and commits it again.
RecommitProc == <<"commit", "read", "change", "commit">>

\* proc(queries) with that procedure: its calls are still to make.
InvokeRecommit(p) ==
    /\ pc[p] = "open"
    /\ Len(queries[p]) = Len(configs[p])
    /\ pc' = [pc EXCEPT ![p] = "run"]
    /\ opsLeft' = [opsLeft EXCEPT ![p] = Len(RecommitProc)]
    /\ hist' = [hist EXCEPT ![p].invoked = @ + 1]
    /\ UNCHANGED <<store, lockHolder, sheets, configs, queries, result, committers, lastCommitted>>

\* The next session call of the procedure.
RecommitCall(p) ==
    /\ InProc(p, 1)
    /\ LET op == RecommitProc[Len(RecommitProc) - opsLeft[p] + 1]
       IN  CASE op = "commit" -> commit(p, 1)
             [] op = "read" -> read(p, 1)
             [] OTHER ->
                  \/ \E records \in RecordLists(queries[p][1].id) :
                        set(p, 1, records) \/ append(p, 1, records)
                  \/ \E cond \in Conditions : deleteIf(p, 1, cond)

\* The procedure returns once its calls are made.
RecommitReturn(p) ==
    /\ pc[p] = "run"
    /\ opsLeft[p] = 0
    /\ ProcReturn(p, "v1")

NextRecommit ==
    \E p \in {1} :
        \/ LoadModule(p)
        \/ \E cs \in ConfigLists : useSheetQuery(p, cs, NoOptions)
        \/ waitLock(p)
        \/ OpenQuery(p)
        \/ InvokeRecommit(p)
        \/ RecommitCall(p)
        \/ RecommitReturn(p)
        \/ releaseLock(p)

SpecRecommit == Init /\ [][NextRecommit]_vars

\* ------------------------------------------------------------------------
\* One execution whose calls work on the group sheet alone, with the
\* options callers pass, while the spreadsheet's user may insert the group
\* sheet when it does not exist yet.
\* ------------------------------------------------------------------------
\* The group sheets there can be: header and body rows.
NewGroupSheets == {<<HeaderOf(GROUP_COLUMN_TYPES)>> \o gb : gb \in GroupBodies}

\* The user of the spreadsheet inserts the group sheet (no script lock is
\* involved).
InsertSheet(id) ==
    /\ store[id] = <<>>
    /\ \E sheet \in NewGroupSheets : store' = [store EXCEPT ![id] = sheet]
    /\ UNCHANGED <<lockHolder, pc, sheets, configs, queries, result, opsLeft, hist,
                   committers, lastCommitted>>

InitCaller ==
    /\ \E sheet \in NewGroupSheets \cup {<<>>} :
          store = [id \in SheetIds |->
                      IF id = GROUP_SHEET_ID THEN sheet
                      ELSE <<HeaderOf(USER_COLUMN_TYPES)>> \o UserBody]
    /\ lockHolder = 0
    /\ pc = [p \in Procs |-> "load"]
    /\ sheets = [p \in Procs |-> <<>>]
    /\ configs = [p \in Procs |-> <<>>]
    /\ queries = [p \in Procs |-> <<>>]
    /\ result = [p \in Procs |-> NoResult]
    /\ opsLeft = [p \in Procs |-> 0]
    /\ hist = [p \in Procs |-> NoHist]
    /\ committers = [id \in SheetIds |-> {}]
    /\ lastCommitted = [id \in SheetIds |-> <<>>]

NextCaller ==
    \/ InsertSheet(GROUP_SHEET_ID)
    \/ \E p \in {1} :
          \/ LoadModule(p)
          \/ \E options \in OptionsPassed : useSheetQuery(p, <<groupQueryConfig>>, options)
          \/ Uncontended(p)
          \/ NextCall(p)
          \/ read(p, 1)
          \/ readAndKeep(p, 1)
          \/ \E records \in RecordLists(GROUP_SHEET_ID) :
                set(p, 1, records) \/ append(p, 1, records)
          \/ \E cond \in Conditions : deleteIf(p, 1, cond)
          \/ commit(p, 1)

SpecCaller == InitCaller /\ [][NextCaller]_vars

\* ------------------------------------------------------------------------
\* The server functions exported through apiHandler (main.ts): an execution
\* serves a call by running fn and handing its Result back as an ApiResult.
\* ------------------------------------------------------------------------
apiHandler(p, res) ==
    /\ pc[p] = "idle"
    /\ result' = [result EXCEPT ![p] = res]
    /\ hist' = [hist EXCEPT ![p].responses = Append(@, resultify(res))]
    /\ pc' = [pc EXCEPT ![p] = "done"]
    /\ UNCHANGED <<store, lockHolder, sheets, configs, queries, opsLeft, committers, lastCommitted>>

NextApi ==
    \E p \in Procs :
        \/ LoadModule(p)
        \/ \E res \in FnResults : apiHandler(p, res)
        \/ NextCall(p)

SpecApi == InitConcurrent /\ [][NextApi]_vars

\* ------------------------------------------------------------------------
\* Claims
\* ------------------------------------------------------------------------
Acquired(p) == hist[p].waitOutcome = "acquired"

\* An execution between its successful waitLock and its releaseLock.
InCriticalSection(p) ==
    \/ pc[p] \in {"open", "run"}
    \/ pc[p] = "finally" /\ Acquired(p)

\* C1: a call that acquired the lock keeps it until the finally clause,
\* and when the Result is handed back releaseLock has been called exactly
\* once and the call no longer holds the lock, whether the procedure
\* returned, the procedure threw or a session failed to open.
C1_LockReleasedExactlyOnce ==
    \A p \in Procs :
        /\ InCriticalSection(p) => lockHolder = p /\ hist[p].releases = 0
        /\ pc[p] = "done" => lockHolder # p /\ hist[p].releases = 1

C1_Witness ==
    \E p, q \in Procs :
        /\ pc[p] = "done" /\ Acquired(p) /\ result[p].kind = "ok"
        /\ pc[q] = "done" /\ Acquired(q) /\ result[q].kind = "err"
        /\ hist[q].failedAt = 2

\* C2: when waitLock times out the call returns a failure, the procedure
\* is not invoked, no session is opened and the call writes nothing to the
\* spreadsheet.
C2_TimeoutDoesNothing ==
    \A p \in Procs :
        hist[p].waitOutcome = "timeout" =>
            /\ pc[p] \in {"finally", "done"}
            /\ result[p] = Err(LockTimeout)
            /\ hist[p].invoked = 0
            /\ hist[p].opens = 0
            /\ queries[p] = <<>>
            /\ hist[p].writes = 0
            /\ hist[p].unlocked \subseteq {"list"}

C2_Witness ==
    \E p \in Procs : hist[p].waitOutcome = "timeout" /\ pc[p] = "done"

\* C3: at most one execution is between a successful waitLock and its
\* releaseLock, and it is the one the lock names as holder.
C3_MutualExclusion ==
    /\ Cardinality({p \in Procs : InCriticalSection(p)}) <= 1
    /\ \A p \in Procs : InCriticalSection(p) => lockHolder = p

C3_Witness ==
    \E p, q \in Procs :
        /\ pc[p] = "run" /\ hist[p].writes > 0
        /\ pc[q] = "wait"

\* C4: every access of an execution to the spreadsheet (listing the
\* sheets, reading a sheet's values, writing rows) is made while the
\* execution holds the lock.
C4_AccessOnlyUnderLock ==
    \A p \in Procs : hist[p].unlocked = {}

IsPrefix(a, b) == Len(a) <= Len(b) /\ SubSeq(b, 1, Len(a)) = a

\* C5: while an execution is opening its sessions or running its
\* procedure, no other execution changes a sheet it has a session on (the
\* sheet is as the session last read or wrote it), and the working set a
\* session starts with contains the rows of the last commit to its sheet:
\* transactions on the same sheet take effect one after the other, in the
\* order they acquired the lock.
C5_NoLostUpdate ==
    \A p \in Procs :
        \A i \in DOMAIN queries[p] :
            LET q == queries[p][i]
            IN  /\ pc[p] \in {"open", "run"} => store[q.id] = q.seen
                /\ pc[p] = "open" =>
                      IsPrefix(MapRows(lastCommitted[q.id], q.columnTypes), q.records)

C5_Witness ==
    \E p, q \in Procs :
        /\ p # q
        /\ pc[q] = "done" /\ GROUP_SHEET_ID \in hist[q].committed
        /\ pc[p] = "run" /\ GROUP_SHEET_ID \in hist[p].committed
        /\ hist[p].before[GROUP_SHEET_ID] # hist[q].before[GROUP_SHEET_ID]

\* C6: the Result is Ok with the value the procedure returned when nothing
\* threw, and Err with the very Error that was thrown first (by waitLock,
\* by opening a session or by the procedure); every throw ends in a Result.
C6_ResultCarriesOutcome ==
    \A p \in Procs :
        /\ pc[p] \in {"finally", "done"} =>
              /\ result[p].kind \in {"ok", "err"}
              /\ hist[p].thrown = NoError => result[p] = Ok(hist[p].returned)
              /\ hist[p].thrown.isError => result[p] = Err(hist[p].thrown)
              /\ hist[p].thrown # NoError => result[p].kind = "err"
        /\ pc[p] \notin {"finally", "done"} => result[p] = NoResult /\ hist[p].thrown = NoError

C6_Witness ==
    \E p, q \in Procs :
        /\ pc[p] = "done" /\ result[p] = Ok("v2")
        /\ pc[q] = "done" /\ result[q] = Err(LockTimeout)

\* C7: when a session fails to open (no sheet of the id, or a header that
\* fails validation), at whatever position of the config list, the
\* procedure is not invoked, nothing is written, the Result is Err with the
\* error of that session, and the lock is released.
C7_OpenFailureAborts ==
    \A p \in Procs :
        hist[p].failedAt # 0 =>
            /\ pc[p] \in {"finally", "done"}
            /\ hist[p].invoked = 0
            /\ hist[p].writes = 0
            /\ store = hist[p].before
            /\ hist[p].opens = hist[p].failedAt
            /\ result[p] = Err(createSheetQuery(configs[p][hist[p].failedAt],
                                               sheets[p], store).error)
            /\ pc[p] = "done" => lockHolder # p /\ hist[p].releases = 1

C7_Witness ==
    \E p \in Procs :
        /\ pc[p] = "done"
        /\ hist[p].failedAt = 2
        /\ result[p].error.msg = "Header does not properly defined."

\* C8: a sheet changes only in a step that is a commit() on a session of
\* that sheet; while a call has not committed to a sheet, the sheet is as
\* it was when the call acquired the lock, whatever read, set, append and
\* deleteIf calls were made.
C8_OnlyCommitWrites ==
    [][ /\ \A id \in SheetIds :
              store'[id] # store[id] =>
                  \E p \in Procs, i \in 1..2 : commit(p, i) /\ queries[p][i].id = id
        /\ \A p \in Procs :
              InCriticalSection(p)' =>
                  \A id \in SheetIds \ hist'[p].committed :
                      store'[id] = hist'[p].before[id] ]_vars

C8_Witness ==
    \E p \in Procs :
        /\ pc[p] = "run" /\ opsLeft[p] = 0
        /\ hist[p].writes = 0
        /\ store = hist[p].before
        /\ \E i \in DOMAIN queries[p] :
              /\ queries[p][i].records # <<>>
              /\ queries[p][i].records #
                    MapRows(Tail(store[queries[p][i].id]), queries[p][i].columnTypes)

\* The block commit writes: as many rows as records, as many columns as the
\* schema has, from row 2 and column 1, record r in row r + 1 with its
\* values in schema column order; every other cell keeps its content.
BlockWritten(old, new, records, columnTypes) ==
    LET n == Len(records)
        c == Len(columnTypes)
    IN  /\ Len(new) = Max(Len(old), n + 1)
        /\ \A r \in 1..Len(new) :
              /\ Len(new[r]) = Max(Width(old), c)
              /\ \A k \in 1..Len(new[r]) :
                    new[r][k] =
                        IF r \in 2..(n + 1) /\ k \in 1..c
                        THEN records[r - 1][columnTypes[k].name]
                        ELSE IF r <= Len(old) /\ k <= Width(old)
                        THEN old[r][k]
                        ELSE EmptyCell

\* C9: a commit() on a working set of n > 0 records writes exactly the
\* block of n rows and as many columns as the schema has, from row 2 and
\* column 1 of the session's sheet, row i holding record i in schema
\* column order.
C9_CommitWritesWorkingSet ==
    [][ \A p \in Procs, i \in 1..2 :
            commit(p, i) /\ queries[p][i].records # <<>> =>
                BlockWritten(store[queries[p][i].id], store'[queries[p][i].id],
                             queries[p][i].records, queries[p][i].columnTypes) ]_vars

C9_Witness ==
    \E p \in Procs, i \in 1..2 :
        /\ pc[p] = "run"
        /\ i \in DOMAIN queries[p]
        /\ queries[p][i].id \in hist[p].committed
        /\ Len(queries[p][i].records) >= 2
        /\ store[queries[p][i].id] # hist[p].before[queries[p][i].id]
        /\ BlockWritten(hist[p].before[queries[p][i].id], store[queries[p][i].id],
                        queries[p][i].records, queries[p][i].columnTypes)

\* C10: a commit() on an empty working set does not throw: the procedure
\* goes on, and the sheet keeps its header row.
C10_EmptyCommitDoesNotThrow ==
    [][ \A p \in Procs, i \in 1..2 :
            commit(p, i) /\ queries[p][i].records = <<>> =>
                /\ pc'[p] = "run"
                /\ hist'[p].thrown = NoError
                /\ store'[queries[p][i].id][1] = store[queries[p][i].id][1] ]_vars

\* The row ["0123", "aaa", 1].
ExampleRow == <<Str(<<"0123">>), Str(<<"aaa">>), Num(1)>>

\* The group sheet of the scenario: header ["Group ID", "Name",
\* "Ave. Grades"] and the two body rows.
ScenarioSheet == Layout(<<B(1), B(2), B(3)>>, <<1, 2, 3>>, ExampleBody)

\* C11: on a sheet with header ["Group ID", "Name", "Ave. Grades"] and the
\* rows ["0123","aaa",1], ["4567","bbb",6], the transaction that calls set
\* with the two records, append with the record of grade 2, deleteIf(grade
\* > 1) and commit returns Ok and has written exactly the row
\* ["0123","aaa",1], at row 2.
C11_ExampleScenario ==
    \A p \in Procs :
        (pc[p] = "done" /\ hist[p].before[GROUP_SHEET_ID] = ScenarioSheet) =>
            /\ result[p].kind = "ok"
            /\ hist[p].writes = 1
            /\ lastCommitted[GROUP_SHEET_ID] = <<ExampleRow>>
            /\ store[GROUP_SHEET_ID][2] = ExampleRow

\* The column name a header cell stands for: the name part of `name <type>`,
\* or the whole text of a cell without annotation.
HeaderName(cell) ==
    IF cell.kind = "string" /\ HEADER_REGEX(cell.str).matched
    THEN HEADER_REGEX(cell.str).header
    ELSE cell.str

\* The positions of the header row where a column name appears.
Positions(headers, name) ==
    {k \in DOMAIN headers : headers[k].kind = "string" /\ HeaderName(headers[k]) = name}

\* C12: in a session that has just been opened, for every body row and
\* every schema column that appears in (exactly) one header cell, the
\* record of the row holds under the column's name the cell of the row at
\* the position of that header cell, whatever the order of the header
\* columns.
C12_DecodeByHeaderPosition ==
    \A p \in Procs :
        pc[p] = "open" =>
            \A i \in DOMAIN queries[p] :
                LET q == queries[p][i]
                    headers == q.seen[1]
                IN  \A r \in DOMAIN q.records, c \in DOMAIN q.columnTypes :
                        \A k \in Positions(headers, q.columnTypes[c].name) :
                            Cardinality(Positions(headers, q.columnTypes[c].name)) = 1 =>
                                q.records[r][q.columnTypes[c].name] = q.seen[r + 1][k]

\* C13: the rows commit encodes from a working set decode to the same
\* records in the same order, both directly and when the sheet they were
\* written to is opened again.
C13_RoundTrip ==
    [][ \A p \in Procs, i \in 1..2 :
            (InProc(p, i) /\ hist'[p].writes > hist[p].writes /\ commit(p, i)) =>
                LET q == queries[p][i]
                    reopened == createSheetQuery(createQueryConfig(q.id, q.columnTypes),
                                                 getSheets, store')
                IN  /\ MapRows(MapRecords(q.records, q.columnTypes), q.columnTypes) = q.records
                    /\ ~reopened.error.isError
                    /\ SubSeq(reopened.query[1].records, 1, Len(q.records)) = q.records ]_vars

C13_Witness ==
    \E p \in Procs :
        /\ hist[p].calls = 2 /\ pc[p] = "open"
        /\ \E i \in DOMAIN queries[p] :
              /\ Len(lastCommitted[queries[p][i].id]) >= 2
              /\ IsPrefix(MapRows(lastCommitted[queries[p][i].id], queries[p][i].columnTypes),
                          queries[p][i].records)

\* The column names the header row of a sheet resolves to.
ResolvedNames(headers) == {HeaderName(headers[k]) : k \in DOMAIN headers}

\* C14: a session opens only when every schema column matches a header
\* cell: in a session that has just been opened the column names of the
\* header row are the schema's column names exactly.
C14_MissingColumnRejected ==
    \A p \in Procs :
        pc[p] = "open" =>
            \A i \in DOMAIN queries[p] :
                ResolvedNames(queries[p][i].seen[1]) = ColumnNames(queries[p][i].columnTypes)

\* A header cell whose name the schema does not declare, or that is
\* annotated with a type and no schema column has that name and that type.
Undeclared(cell, columnTypes) ==
    /\ cell.kind = "string"
    /\ LET m == HEADER_REGEX(cell.str)
       IN  IF m.matched
           THEN ~\E c \in DOMAIN columnTypes :
                    columnTypes[c].name = m.header /\ columnTypes[c].type = m.type
           ELSE cell.str \notin ColumnNames(columnTypes)

\* A header cell that is no `name <type>` text of a schema column.
Offending(cell, columnTypes) ==
    \/ cell.kind # "string"
    \/ ~HEADER_REGEX(cell.str).matched
    \/ Undeclared(cell, columnTypes)

\* The header row of the sheet the k-th config of a call names, as it was
\* when the call acquired the lock.
HeaderSeen(p, k) == hist[p].before[configs[p][k].id][1]

\* C15: when the header row of a sheet has a cell whose name the schema
\* does not declare, or whose annotated type the schema does not declare
\* for that name, opening a session on the sheet fails and the error cites
\* the text of an offending cell of that header row.
C15_UnknownHeaderRejected ==
    \A p \in Procs :
        \A k \in 1..hist[p].opens :
            LET headers == HeaderSeen(p, k)
                columnTypes == configs[p][k].columnTypes
            IN  (\E j \in DOMAIN headers : Undeclared(headers[j], columnTypes)) =>
                    /\ hist[p].failedAt = k
                    /\ result[p].kind = "err"
                    /\ \E j \in DOMAIN headers :
                          /\ result[p].error.cell = headers[j]
                          /\ Offending(headers[j], columnTypes)

C15_Witness ==
    \E p \in Procs :
        /\ pc[p] = "done" /\ hist[p].failedAt = 2
        /\ result[p].error.cell = Str(<<"Name", " ", "<number>">>)
        /\ Undeclared(result[p].error.cell, configs[p][2].columnTypes)

\* C16: when any cell of the header row of a sheet is not a string,
\* opening a session on the sheet fails, whatever the other cells are.
C16_NonStringHeaderRejected ==
    \A p \in Procs :
        \A k \in 1..hist[p].opens :
            (\E j \in DOMAIN HeaderSeen(p, k) : HeaderSeen(p, k)[j].kind # "string") =>
                /\ hist[p].failedAt = k
                /\ result[p].kind = "err"
                /\ hist[p].invoked = 0

C16_Witness ==
    \E p \in Procs :
        /\ pc[p] = "done" /\ hist[p].failedAt = 2
        /\ HeaderSeen(p, 2)[3] = Bool(TRUE)
        /\ result[p].error = MkError("Header does not type of string.", Bool(TRUE), 0)

\* A header cell the schema declares: `name <type>` of a schema column, or
\* the bare name of a schema column.
Declared(cell, columnTypes) ==
    /\ cell.kind = "string"
    /\ LET m == HEADER_REGEX(cell.str)
       IN  IF m.matched
           THEN \E c \in DOMAIN columnTypes :
                    columnTypes[c].name = m.header /\ columnTypes[c].type = m.type
           ELSE cell.str \in ColumnNames(columnTypes)

\* C17: a header cell without type annotation stands for the column of
\* that name: a sheet whose header cells are each `name <type>` of a schema
\* column or the bare name of a schema column opens.
C17_BareHeaderAccepted ==
    \A p \in Procs :
        \A k \in 1..hist[p].opens :
            (\A j \in DOMAIN HeaderSeen(p, k) :
                Declared(HeaderSeen(p, k)[j], configs[p][k].columnTypes)) =>
                    hist[p].failedAt # k

\* C18: a header row in which the same column name occurs in two cells is
\* rejected when the session is opened.
C18_DuplicateHeaderRejected ==
    \A p \in Procs :
        \A k \in 1..hist[p].opens :
            LET headers == HeaderSeen(p, k)
            IN  (\E i, j \in DOMAIN headers :
                    /\ i # j
                    /\ headers[i].kind = "string" /\ headers[j].kind = "string"
                    /\ HeaderName(headers[i]) = HeaderName(headers[j])) =>
                        hist[p].failedAt = k /\ result[p].kind = "err"

\* The header failure of a header row: a cell that is not a string among
\* cells that are otherwise `name <type>` of schema columns ("nonString"),
\* annotated cells of which one has a name the schema does not declare
\* ("unknown"), cells that are all `name <type>` of schema columns but
\* leave a schema column out ("missing").
FailureKind(headers, columnTypes) ==
    LET strings == {j \in DOMAIN headers : headers[j].kind = "string"}
    IN  IF /\ strings # DOMAIN headers
           /\ \A j \in strings : ~Offending(headers[j], columnTypes)
        THEN "nonString"
        ELSE IF /\ strings = DOMAIN headers
                /\ \A j \in strings : HEADER_REGEX(headers[j].str).matched
                /\ \E j \in strings : HeaderName(headers[j]) \notin ColumnNames(columnTypes)
        THEN "unknown"
        ELSE IF /\ \A j \in DOMAIN headers : ~Offending(headers[j], columnTypes)
                /\ ~(ColumnNames(columnTypes) \subseteq ResolvedNames(headers))
        THEN "missing"
        ELSE "none"

\* The failure a caller reads off the message of the Error in the Err
\* result.
ErrorKind(error) ==
    CASE error.msg = "Header does not type of string." -> "nonString"
      [] error.msg = "Unknown headers are defined." -> "unknown"
      [] OTHER -> "other"

\* C19: a non-string header cell, a header name absent from the schema and
\* a schema column missing from the header each make the open fail, and
\* the Err result tells which of the three occurred.
C19_ThreeHeaderErrorKinds ==
    \A p \in Procs :
        \A k \in 1..hist[p].opens :
            LET kind == FailureKind(HeaderSeen(p, k), configs[p][k].columnTypes)
            IN  kind # "none" =>
                    /\ hist[p].failedAt = k
                    /\ result[p].kind = "err"
                    /\ ErrorKind(result[p].error) = kind

\* C20: after append(records), read() returns what read() returned before
\* the append followed by the appended records, both in their order, in
\* whatever state the session is and also for an empty list; and a read()
\* leaves the working set as it is.
C20_AppendThenRead ==
    [][ \A p \in Procs, i \in 1..2 :
            InProc(p, i) =>
                /\ \A records \in RecordLists(queries[p][i].id) :
                      append(p, i, records) =>
                          readValue(queries'[p][i]) = readValue(queries[p][i]) \o records
                /\ read(p, i) => readValue(queries'[p][i]) = readValue(queries[p][i]) ]_vars

C20_Witness ==
    \E p \in Procs :
        /\ pc[p] = "run" /\ opsLeft[p] = 0
        /\ \E i \in DOMAIN queries[p] :
              /\ queries[p][i].id = GROUP_SHEET_ID
              /\ Len(store[GROUP_SHEET_ID]) = 3
              /\ readValue(queries[p][i]) =
                    MapRows(Tail(store[GROUP_SHEET_ID]), GROUP_COLUMN_TYPES)
                    \o << GroupRecord("1234", "bbb", 2) >>

\* The positions of the records a condition does not match, and the k-th
\* of them from the front.
Kept(records, cond) == {j \in DOMAIN records : ~Condition(cond, records[j])}

KthKept(records, cond, k) ==
    CHOOSE j \in Kept(records, cond) :
        Cardinality({m \in Kept(records, cond) : m <= j}) = k

\* C21: after deleteIf(condition), read() returns exactly the records of
\* the working set for which the condition is false, in the order they
\* had; when the condition matches no record the working set is as it was.
C21_DeleteIfKeepsOthersInOrder ==
    [][ \A p \in Procs, i \in 1..2 :
            InProc(p, i) =>
                \A cond \in Conditions :
                    deleteIf(p, i, cond) =>
                        LET old == readValue(queries[p][i])
                            new == readValue(queries'[p][i])
                        IN  /\ Len(new) = Cardinality(Kept(old, cond))
                            /\ \A k \in DOMAIN new : new[k] = old[KthKept(old, cond, k)]
                            /\ Kept(old, cond) = DOMAIN old => new = old ]_vars

\* A deleteIf(grade > 1) has removed the records of grade above 1 and kept
\* the record of grade 1.
C21_Witness ==
    \E p \in Procs :
        /\ pc[p] = "run" /\ opsLeft[p] = 0
        /\ \E i \in DOMAIN queries[p] :
              /\ queries[p][i].id = GROUP_SHEET_ID
              /\ Len(store[GROUP_SHEET_ID]) = 3
              /\ hist[p].writes = 0
              /\ readValue(queries[p][i]) = << GroupRecord("0123", "aaa", 1) >>

\* C22: after set(records), read() returns exactly the given records in
\* the given order, whatever the working set was before.
C22_SetReplaces ==
    [][ \A p \in Procs, i \in 1..2 :
            InProc(p, i) =>
                \A records \in RecordLists(queries[p][i].id) :
                    set(p, i, records) => readValue(queries'[p][i]) = records ]_vars

\* A set of one record has replaced a working set of two other records.
C22_Witness ==
    \E p \in Procs :
        /\ pc[p] = "run" /\ opsLeft[p] = MaxOps - 1
        /\ \E i \in DOMAIN queries[p] :
              /\ queries[p][i].id = GROUP_SHEET_ID
              /\ Len(store[GROUP_SHEET_ID]) = 3
              /\ readValue(queries[p][i]) = << GroupRecord("1234", "bbb", 2) >>

\* C23: read() leaves the working set of the session and the spreadsheet
\* as they are, in whatever state the session is; and the list a read()
\* returned stays as it was returned through the set, append, deleteIf and
\* commit calls that follow.
C23_ReadIsSnapshot ==
    [][ \A p \in Procs, i \in 1..2 :
            InProc(p, i) =>
                /\ (read(p, i) \/ readAndKeep(p, i)) =>
                      /\ readValue(queries'[p][i]) = readValue(queries[p][i])
                      /\ store' = store
                /\ readAndKeep(p, i) => queries'[p][i].held = readValue(queries[p][i])
                /\ (pc'[p] = "run" /\ ~readAndKeep(p, i)) =>
                      queries'[p][i].held = queries[p][i].held ]_vars

\* The procedure kept the two records read() returned and appended a third
\* to the session.
C23_Witness ==
    \E p \in Procs :
        /\ pc[p] = "run"
        /\ 1 \in DOMAIN queries[p]
        /\ Len(queries[p][1].held) = 2
        /\ Len(readValue(queries[p][1])) = 3

\* C24: when the procedure has committed some sessions and then throws,
\* the Result is Err, each committed sheet holds the rows committed to it,
\* every other sheet is as it was when the lock was acquired, and the lock
\* is released with the Result.
C24_NoRollbackAcrossTables ==
    \A p \in Procs :
        (/\ pc[p] \in {"finally", "done"}
         /\ hist[p].invoked = 1
         /\ hist[p].thrown # NoError
         /\ hist[p].committed # {}) =>
            /\ result[p].kind = "err"
            /\ \A id \in SheetIds :
                  IF id \in hist[p].committed
                  THEN /\ Len(store[id]) > Len(lastCommitted[id])
                       /\ SubSeq(store[id], 2, Len(lastCommitted[id]) + 1) = lastCommitted[id]
                  ELSE store[id] = hist[p].before[id]
            /\ pc[p] = "done" => lockHolder # p /\ hist[p].releases = 1

\* The procedure committed a changed working set to the first of two
\* sessions and threw: the second sheet is untouched.
C24_Witness ==
    \E p \in Procs :
        /\ pc[p] = "done"
        /\ Len(configs[p]) = 2
        /\ hist[p].thrown = MkError("procedure failed", EmptyCell, 0)
        /\ hist[p].committed = {configs[p][1].id}
        /\ store[configs[p][1].id] # hist[p].before[configs[p][1].id]
        /\ store[configs[p][2].id] = hist[p].before[configs[p][2].id]

\* C25: a commit() on one session leaves every sheet but the session's
\* own, and the working set of every other session of the call, as they
\* were.
C25_CommitTouchesOwnTableOnly ==
    [][ \A p \in Procs, i \in 1..2 :
            (InProc(p, i) /\ hist'[p].writes > hist[p].writes /\ commit(p, i)) =>
                /\ \A id \in SheetIds \ {queries[p][i].id} : store'[id] = store[id]
                /\ \A j \in DOMAIN queries[p] \ {i} :
                      readValue(queries'[p][j]) = readValue(queries[p][j]) ]_vars

\* The second of two sessions was committed with a changed working set:
\* its sheet changed, the sheet of the first session is as it was.
C25_Witness ==
    \E p \in Procs :
        /\ pc[p] = "run"
        /\ Len(queries[p]) = 2
        /\ hist[p].committed = {queries[p][2].id}
        /\ store[queries[p][2].id] # hist[p].before[queries[p][2].id]
        /\ store[queries[p][1].id] = hist[p].before[queries[p][1].id]
        /\ readValue(queries[p][1]) # <<>>

\* C26: set, append and deleteIf on one session leave the working set
\* that read() of every other session of the call returns as it was.
C26_SessionsShareNoRecords ==
    [][ \A p \in Procs, i \in 1..2 :
            InProc(p, i) =>
                ((\/ \E records \in RecordLists(queries[p][i].id) :
                        set(p, i, records) \/ append(p, i, records)
                  \/ \E cond \in Conditions : deleteIf(p, i, cond)) =>
                    \A j \in DOMAIN queries[p] \ {i} :
                        readValue(queries'[p][j]) = readValue(queries[p][j])) ]_vars

\* The working set of the second session was replaced while the first
\* session still holds the rows of its sheet.
C26_Witness ==
    \E p \in Procs :
        /\ pc[p] = "run" /\ hist[p].writes = 0
        /\ Len(queries[p]) = 2
        /\ readValue(queries[p][1]) # <<>>
        /\ readValue(queries[p][1]) =
              MapRows(Tail(store[queries[p][1].id]), queries[p][1].columnTypes)
        /\ readValue(queries[p][2]) #
              MapRows(Tail(store[queries[p][2].id]), queries[p][2].columnTypes)

\* C27: every session of a transaction starts from its sheet as the sheet
\* is when the transaction holds the lock: when the sheet a config names
\* exists with a valid header at the time the lock is acquired, the session
\* opens, and its first working set is the decoded body rows of that time;
\* nothing listed or read before the lock was acquired is used.
C27_NothingReusedAcrossTransactions ==
    \A p \in Procs :
        \A k \in 1..hist[p].opens :
            LET config == configs[p][k]
                table == hist[p].before[config.id]
            IN  (/\ config.id \in SheetIds
                 /\ table # <<>>
                 /\ ~validateColumnTypes(table, config.columnTypes).isError) =>
                    /\ hist[p].failedAt # k
                    /\ (pc[p] = "open" /\ k <= Len(queries[p])) =>
                          readValue(queries[p][k]) = MapRows(Tail(table), config.columnTypes)

\* C28: proc is called with one session per config, in the order of the
\* configs: the i-th session has the id and the column types of the i-th
\* config and starts from the decoded body rows of the sheet of that id.
\* Each call proc makes changes the working set of the session it is made
\* on only, and acts on the working set the calls before it left: set
\* replaces it, append puts the records after it, deleteIf filters it, read
\* and commit leave it; commit writes to the sheet of the i-th config's id
\* only.
C28_SessionsInSchemaOrder ==
    [][ \A p \in Procs :
            /\ (pc[p] = "open" /\ pc'[p] = "run") =>
                  /\ Len(queries'[p]) = Len(configs[p])
                  /\ \A i \in DOMAIN configs[p] :
                        /\ queries'[p][i].id = configs[p][i].id
                        /\ queries'[p][i].columnTypes = configs[p][i].columnTypes
                        /\ readValue(queries'[p][i]) =
                              MapRows(Tail(store[configs[p][i].id]), configs[p][i].columnTypes)
            /\ (pc[p] = "run" /\ opsLeft[p] > 0) =>
                  LET changed == {j \in DOMAIN queries[p] :
                                     readValue(queries'[p][j]) # readValue(queries[p][j])}
                  IN  /\ Cardinality(changed) <= 1
                      /\ \A i \in changed :
                            LET old == readValue(queries[p][i])
                                new == readValue(queries'[p][i])
                            IN  /\ ~read(p, i) /\ ~commit(p, i)
                                /\ \A records \in RecordLists(queries[p][i].id) :
                                      /\ set(p, i, records) => new = records
                                      /\ append(p, i, records) => new = old \o records
                                /\ \A cond \in Conditions :
                                      deleteIf(p, i, cond) => new = Filter(old, cond)
                      /\ hist'[p].writes > hist[p].writes =>
                            \A i \in DOMAIN queries[p] :
                                commit(p, i) =>
                                    \A id \in SheetIds \ {configs[p][i].id} :
                                        store'[id] = store[id] ]_vars

\* proc was called with two sessions, the user session first, and has
\* called append on the second and then deleteIf on the first: the group
\* session holds the sheet's record and the appended one, and the user
\* session, emptied, is the first.
C28_Witness ==
    \E p \in Procs :
        /\ pc[p] = "run" /\ opsLeft[p] = 0
        /\ configs[p] = <<userQueryConfig, groupQueryConfig>>
        /\ Len(queries[p]) = 2
        /\ queries[p][1].id = USER_SHEET_ID
        /\ readValue(queries[p][1]) = <<>>
        /\ Len(store[USER_SHEET_ID]) >= 2
        /\ readValue(queries[p][2]) =
              MapRows(Tail(store[GROUP_SHEET_ID]), GROUP_COLUMN_TYPES)
                 \o << GroupRecord("1234", "bbb", 2) >>

\* C29: a transaction that follows a commit decodes exactly the committed
\* working set: once rows were committed to a sheet, every session a later
\* call opens on that sheet starts from the records of those rows and no
\* other, also when fewer rows were committed than the sheet had body rows.
C29_CommitLeavesNoStaleRows ==
    \A p \in Procs :
        pc[p] = "open" =>
            \A k \in DOMAIN queries[p] :
                LET query == queries[p][k]
                IN  lastCommitted[query.id] # <<>> =>
                        readValue(query) = MapRows(lastCommitted[query.id], query.columnTypes)

\* C30: the wait passed to lock.waitLock is the timeouts of the options the
\* caller gave, a given 0 included, and 5000 when the caller gave no
\* options or options without timeouts.
C30_LockWaitFromOptions ==
    \A p \in Procs :
        hist[p].waits > 0 =>
            hist[p].waitedFor =
                IF hist[p].options.given /\ hist[p].options.hasTimeouts
                THEN hist[p].options.timeouts
                ELSE 5000

\* A call made with the options {timeouts: 0} has passed 0 to
\* lock.waitLock and holds the lock.
C30_Witness ==
    \E p \in Procs :
        /\ hist[p].options = WithTimeouts(0)
        /\ hist[p].waits = 1
        /\ hist[p].waitedFor = 0
        /\ lockHolder = p

\* C31: an execution that holds the lock is inside its call, between
\* waitLock and the end of the finally clause; and every call that waits for
\* the lock or holds it comes to its end, having acquired the lock or
\* timed out, and no longer holds the lock then.
C31_NoInvocationBlockedForever ==
    \A p \in Procs :
        /\ [](lockHolder = p => pc[p] \in {"open", "run", "finally"})
        /\ (pc[p] \in {"wait", "open", "run", "finally"}) ~>
              (/\ pc[p] = "done"
               /\ lockHolder # p
               /\ hist[p].waitOutcome \in {"acquired", "timeout"})

\* One execution has acquired the lock, run to the end and released it, and
\* another, which called meanwhile, holds the lock now.
C31_Witness ==
    \E p, q \in Procs :
        /\ p # q
        /\ lockHolder = p
        /\ pc[q] = "done"
        /\ hist[q].waitOutcome = "acquired"
        /\ hist[q].releases = 1

\* C32: within one call of useSheetQuery lock.waitLock is called once, no
\* more sessions are opened than there are configs, and proc is called at
\* most once; after a failure nothing is tried again: a call whose wait
\* timed out opens no session and does not call proc, and a call one of
\* whose sessions failed to open opens no further session and does not
\* call proc.
C32_NoRetry ==
    \A p \in Procs :
        /\ hist[p].waits <= 1
        /\ pc[p] \in {"open", "run", "finally", "done"} => hist[p].waits = 1
        /\ hist[p].opens <= Len(configs[p])
        /\ hist[p].invoked <= 1
        /\ hist[p].waitOutcome = "timeout" => hist[p].opens = 0 /\ hist[p].invoked = 0
        /\ hist[p].failedAt > 0 => hist[p].opens = hist[p].failedAt /\ hist[p].invoked = 0
        /\ hist[p].thrown.isError => pc[p] \in {"finally", "done"}

\* One call has timed out on its only wait and is over without a session
\* opened, and another has failed to open its second session and is over
\* without calling proc.
C32_Witness ==
    \E p, q \in Procs :
        /\ pc[p] = "done" /\ hist[p].waitOutcome = "timeout" /\ hist[p].waits = 1
        /\ pc[q] = "done" /\ hist[q].failedAt = 2 /\ hist[q].opens = 2

\* C33: no step of any transaction changes the header row of a sheet, nor
\* the set of sheets, nor the number of columns of a sheet: whatever is
\* written, each sheet keeps its row 1 cell for cell.
C33_HeaderRowNeverChanged ==
    [][ \A id \in SheetIds :
            /\ (store[id] = <<>>) = (store'[id] = <<>>)
            /\ store[id] # <<>> =>
                  /\ store'[id][1] = store[id][1]
                  /\ Width(store'[id]) = Width(store[id]) ]_vars

\* C34: a session on a sheet that has a valid header row and no body row
\* opens, with the empty working set; and on an empty working set read,
\* append and deleteIf do not throw: read returns the empty list, append
\* leaves the appended records, deleteIf leaves the empty list.
C34_EmptyTableOpens ==
    [][ \A p \in Procs :
            /\ (pc[p] = "open" /\ Len(queries[p]) < Len(configs[p])) =>
                  LET config == configs[p][Len(queries[p]) + 1]
                  IN  (/\ \E k \in DOMAIN sheets[p] : sheets[p][k] = config.id
                       /\ Len(store[config.id]) = 1
                       /\ ~validateColumnTypes(store[config.id], config.columnTypes).isError
                       /\ OpenQuery(p)) =>
                          /\ pc'[p] = "open"
                          /\ Len(queries'[p]) = Len(queries[p]) + 1
                          /\ readValue(queries'[p][Len(queries'[p])]) = <<>>
            /\ \A i \in 1..2 :
                  (InProc(p, i) /\ readValue(queries[p][i]) = <<>>) =>
                      /\ read(p, i) =>
                            pc'[p] = "run" /\ readValue(queries'[p][i]) = <<>>
                      /\ \A records \in RecordLists(queries[p][i].id) :
                            append(p, i, records) =>
                                pc'[p] = "run" /\ readValue(queries'[p][i]) = records
                      /\ \A cond \in Conditions :
                            deleteIf(p, i, cond) =>
                                pc'[p] = "run" /\ readValue(queries'[p][i]) = <<>> ]_vars

\* A session opened on the group sheet, which had its header row alone, has
\* taken two calls, none of them a commit, and holds one appended record.
C34_Witness ==
    \E p \in Procs :
        /\ pc[p] = "run" /\ opsLeft[p] = 0
        /\ hist[p].writes = 0
        /\ \E i \in DOMAIN queries[p] :
              /\ queries[p][i].id = GROUP_SHEET_ID
              /\ Len(hist[p].before[GROUP_SHEET_ID]) = 1
              /\ Len(store[GROUP_SHEET_ID]) = 1
              /\ queries[p][i].seen = store[GROUP_SHEET_ID]
              /\ readValue(queries[p][i]) = << GroupRecord("1234", "bbb", 2) >>

\* C35: what apiHandler(fn) returns has one of two shapes and follows fn's
\* Result: the fields ok and data, with ok true and data the value, when fn
\* returned Ok(v); the fields ok, name and message, with ok false and the
\* name and message of the error, when fn returned Err(e).
C35_ApiResultShapes ==
    \A p \in Procs :
        \A k \in DOMAIN hist[p].responses :
            LET response == hist[p].responses[k]
                res == result[p]
            IN  /\ \/ DOMAIN response = {"ok", "data"} /\ response.ok
                   \/ DOMAIN response = {"ok", "name", "message"} /\ ~response.ok
                /\ response.ok = (res.kind = "ok")
                /\ res.kind = "ok" => response.data = res.value
                /\ res.kind = "err" =>
                      /\ response.name = res.error.name
                      /\ response.message = res.error.message

\* One execution has answered {ok: true, data: "v1"} to a call whose
\* function returned Ok("v1"), another {ok: false, name: "TypeError",
\* message: "Lock timeout"} to one whose function returned that error.
C35_Witness ==
    \E p, q \in Procs :
        /\ result[p] = Ok("v1")
        /\ hist[p].responses = << [ok |-> TRUE, data |-> "v1"] >>
        /\ result[q] = Err(ErrorOf("TypeError", "Lock timeout"))
        /\ hist[q].responses =
              << [ok |-> FALSE, name |-> "TypeError", message |-> "Lock timeout"] >>

\* C36: the execution that holds the lock stops holding it only by the
\* releaseLock of its own finally clause; the releaseLock of a call whose
\* wait timed out leaves the holder as it is.
C36_FailedWaitReleasesNothing ==
    [][ \A p \in Procs :
            /\ (lockHolder = p /\ lockHolder' # p) => releaseLock(p)
            /\ (hist[p].waitOutcome = "timeout" /\ releaseLock(p)) =>
                  lockHolder' = lockHolder ]_vars

\* A call whose wait timed out has run its finally clause, releaseLock
\* included, and is over, and the other execution still holds the lock
\* inside its procedure.
C36_Witness ==
    \E p, q \in Procs :
        /\ lockHolder = p /\ pc[p] = "run"
        /\ pc[q] = "done"
        /\ hist[q].waitOutcome = "timeout"
        /\ hist[q].releases = 1

\* A cell that holds nothing: the empty string getValues gives for it, or
\* the undefined a record holds for a column the row did not have.
Blank(cell) == cell \in {EmptyCell, Undefined}

\* The cell of a grid at a row and column; beyond the last column there is
\* nothing.
CellAt(grid, r, c) == IF r <= Len(grid) /\ c <= Len(grid[r]) THEN grid[r][c] ELSE EmptyCell

\* C37: a call whose procedure commits sessions it has not changed leaves
\* every sheet it committed to with the body rows it had when the lock was
\* acquired: as many rows, and in every row each cell as it was (a cell
\* that held nothing holds nothing), whatever the order of the header cells
\* and also when the header has fewer cells than the schema has columns.
C37_IdentityCommit ==
    \A p \in Procs :
        \A id \in hist[p].committed :
            LET before == hist[p].before[id]
                after == store[id]
            IN  /\ Len(after) = Len(before)
                /\ \A r \in 2..Len(after) :
                      \A c \in 1..Max(Width(before), Width(after)) :
                          \/ CellAt(after, r, c) = CellAt(before, r, c)
                          \/ Blank(CellAt(after, r, c)) /\ Blank(CellAt(before, r, c))

\* The group sheet, whose header row has the schema's columns in the order
\* 3, 1, 2 and which has two body rows, has been committed to by a
\* procedure that made no other call on the session.
C37_Witness ==
    \E p \in Procs :
        /\ pc[p] = "run"
        /\ hist[p].committed = {GROUP_SHEET_ID}
        /\ store[GROUP_SHEET_ID][1] = <<A(3), A(1), A(2)>>
        /\ Len(store[GROUP_SHEET_ID]) = 3
        /\ store[GROUP_SHEET_ID][2] = <<Num(1), Str(<<"0123">>), Str(<<"aaa">>)>>

\* C38: a commit() leaves the working set of its session as it is, so the
\* read() after it returns what the read() before it would have; and every
\* commit that writes, the first of a procedure as well as one made after
\* further set, append or deleteIf calls, writes the working set as it is
\* at that commit.
C38_CommitKeepsWorkingSet ==
    [][ \A p \in Procs, i \in 1..2 :
            (InProc(p, i) /\ commit(p, i)) =>
                /\ readValue(queries'[p][i]) = readValue(queries[p][i])
                /\ pc'[p] = "run" =>
                      /\ BlockWritten(store[queries[p][i].id], store'[queries[p][i].id],
                                      readValue(queries[p][i]), queries[p][i].columnTypes)
                      /\ lastCommitted'[queries[p][i].id] =
                            MapRecords(readValue(queries'[p][i]), queries[p][i].columnTypes) ]_vars

\* The procedure has committed the two records of the group sheet, read,
\* set the working set to one other record and committed again: row 2 of
\* the sheet holds that record, and read() returns it.
C38_Witness ==
    \E p \in Procs :
        /\ pc[p] = "run" /\ opsLeft[p] = 0
        /\ hist[p].writes = 2
        /\ queries[p][1].id = GROUP_SHEET_ID
        /\ Len(hist[p].before[GROUP_SHEET_ID]) = 3
        /\ readValue(queries[p][1]) = << GroupRecord("1234", "bbb", 2) >>
        /\ store[GROUP_SHEET_ID][2] = <<Str(<<"1234">>), Str(<<"bbb">>), Num(2)>>

\* C39: when the value thrown inside the try block is not an Error, the
\* call still ends with an Err result, whose error is an Error with the
\* string form of the thrown value as its message; and the call releases
\* the lock once, as on the other paths.
C39_NonErrorThrowWrapped ==
    \A p \in Procs :
        (hist[p].thrown # NoError /\ ~hist[p].thrown.isError) =>
            /\ result[p].kind = "err"
            /\ result[p].error.isError
            /\ result[p].error.msg = hist[p].thrown.msg
            /\ pc[p] \in {"finally", "done"}
            /\ pc[p] = "finally" => hist[p].releases = 0 /\ lockHolder = p
            /\ pc[p] = "done" => hist[p].releases = 1 /\ lockHolder # p

\* A procedure has thrown a string after a commit, and the call is over:
\* its result is the Err of an Error with that string as message, and the
\* lock is free.
C39_Witness ==
    \E p \in Procs :
        /\ pc[p] = "done"
        /\ hist[p].writes = 1
        /\ hist[p].thrown.msg = "thrown string" /\ ~hist[p].thrown.isError
        /\ result[p] = Err(MkError("thrown string", EmptyCell, 0))
        /\ lockHolder = 0

====
